---- MODULE Spec2Model ----
(***************************************************************************)
(* KidDoc backend: the rule-based triage classifier and the provider       *)
(* fallback chain behind POST /api/diagnose (server with three providers). *)
(*                                                                         *)
(* Texts are TLA+ strings; a character is a string of length one.         *)
(***************************************************************************)
EXTENDS Integers, Sequences, FiniteSets, TLC

VARIABLES
    symptomsIn,   \* detectTriage: the symptoms argument
    languageIn,   \* detectTriage: the language argument ("" before the call)
    triageOut,    \* detectTriage: the returned object, or NoTriage before the call
    overrides,    \* createApp(overrides): the credentials given, in the order given
    fetchIsFunction, \* typeof config.fetchImpl === "function"
    req,          \* the diagnose request being handled, per request id
    ageIn,        \* the age refinement: the age field of the body checked
    ageOut,       \* the age refinement: the issues it added, or NotChecked
    triageLog,    \* detectTriage called repeatedly: the calls made so far
    ui,           \* App.jsx: the upload state of the component and its reads
    legacy        \* server/index.js: the request handled by the one-provider server

triageVars == <<symptomsIn, languageIn, triageOut>>
ageVars == <<ageIn, ageOut>>
vars == <<triageVars, overrides, fetchIsFunction, req, ageVars, triageLog, ui, legacy>>

\* The parts of the state a specification does not exercise stay as they start
NotUsed == [unused |-> TRUE]
AgeIdle == ageIn = NotUsed /\ ageOut = NotUsed
LogIdle == triageLog = <<>>
UiIdle == ui = NotUsed
LegacyIdle == legacy = NotUsed

(***************************************************************************)
(* Characters and the regular expressions of the triage rule tables        *)
(***************************************************************************)

Char(s, i) == SubSeq(s, i, i)

UPPER == "ABCDEFGHIJKLMNOPQRSTUVWXYZ"
LOWER == "abcdefghijklmnopqrstuvwxyz"
DIGITS == "0123456789"

Letters == 1..Len(UPPER)

UpperChars == {Char(UPPER, i) : i \in Letters}
LowerChars == {Char(LOWER, i) : i \in Letters}
DigitChars == {Char(DIGITS, i) : i \in 1..Len(DIGITS)}

\* \w of a JavaScript regular expression without the u flag: [A-Za-z0-9_]
WordChars == UpperChars \cup LowerChars \cup DigitChars \cup {"_"}

IsDigitChar(c) == c \in DigitChars
IsWordChar(c) == c \in WordChars

UpperOf == [c \in LowerChars |-> Char(UPPER, CHOOSE i \in Letters : Char(LOWER, i) = c)]

\* String.prototype.toUpperCase on one ASCII character
UpperChar(c) == IF c \in LowerChars THEN UpperOf[c] ELSE c

\* Canonicalize of the i flag: the character's upper case.
CanonicalizeCaseSensitive(c) == c
Canonicalize(c) == IF c \in LowerChars THEN UpperOf[c] ELSE c

\* \b at position i (between character i-1 and character i of the text)
WordBoundary(text, i) ==
    LET before == i > 1 /\ i - 1 <= Len(text) /\ IsWordChar(Char(text, i - 1))
        after  == i >= 1 /\ i <= Len(text) /\ IsWordChar(Char(text, i))
    IN  before # after

\* The positions at which a match of pat[j..] that starts at text position i
\* can end (the index of the first character after the match). pat is the
\* source of one alternative: literal characters, c? and [0-9]+.
RECURSIVE MatchEnds(_, _, _, _)
MatchEnds(text, i, pat, j) ==
    IF j > Len(pat) THEN {i}
    ELSE IF Char(pat, j) = "["
    THEN \* [0-9]+ : one or more digits
         LET next == j + Len("[0-9]+")
             ks == {k \in 1..(Len(text) - i + 1) :
                       \A m \in 0..(k - 1) : IsDigitChar(Char(text, i + m))}
         IN  UNION {MatchEnds(text, i + k, pat, next) : k \in ks}
    ELSE IF j < Len(pat) /\ Char(pat, j + 1) = "?"
    THEN \* c? : the character, or nothing
         MatchEnds(text, i, pat, j + 2)
         \cup (IF i <= Len(text) /\ Canonicalize(Char(text, i)) = Canonicalize(Char(pat, j))
               THEN MatchEnds(text, i + 1, pat, j + 2)
               ELSE {})
    ELSE IF i <= Len(text) /\ Canonicalize(Char(text, i)) = Canonicalize(Char(pat, j))
    THEN MatchEnds(text, i + 1, pat, j + 1)
    ELSE {}

\* /\b(alt1|alt2|...)\b/i.test(text)
RegexTest(alts, text) ==
    \E i \in 1..(Len(text) + 1) :
        /\ WordBoundary(text, i)
        /\ \E a \in 1..Len(alts) :
               \E e \in MatchEnds(text, i, alts[a], 1) : WordBoundary(text, e)

URGENT_TRIAGE_PATTERNS == <<
    [regex |-> <<"can'?t breathe", "cannot breathe", "trouble breathing", "struggling to breathe">>,
     reason |-> "Breathing difficulty"],
    [regex |-> <<"chest pain", "severe chest pain">>, reason |-> "Chest pain"],
    [regex |-> <<"unconscious", "passed out", "not waking up">>, reason |-> "Loss of consciousness"],
    [regex |-> <<"seizure", "convulsion">>, reason |-> "Possible seizure"],
    [regex |-> <<"blue lips", "blue face">>, reason |-> "Possible low oxygen signs"],
    [regex |-> <<"thoughts of self harm", "suicidal", "want to die">>,
     reason |-> "Mental health emergency signs"] >>

WATCH_TRIAGE_PATTERNS == <<
    [regex |-> <<"high fever", "fever over", "fever for [0-9]+ days">>,
     reason |-> "Persistent or high fever"],
    [regex |-> <<"vomiting", "diarrhea", "rash", "ear pain", "sore throat">>,
     reason |-> "Symptoms may need a doctor check"],
    [regex |-> <<"headache", "dizzy", "fatigue", "stomach pain", "tummy hurts">>,
     reason |-> "Common symptoms to monitor"] >>

TRIAGE_COPY == [
    en |-> [emergencyTitle |-> "Emergency warning",
            emergencyMessage |-> "Some symptoms look urgent. Please seek emergency care now.",
            cautionTitle |-> "Doctor follow-up recommended",
            cautionMessage |-> "These symptoms should be checked by a doctor soon.",
            routineTitle |-> "Monitor and follow guidance",
            routineMessage |-> "No urgent red flags detected, but keep monitoring symptoms."],
    es |-> [emergencyTitle |-> "Advertencia de emergencia",
            emergencyMessage |-> "Algunos sintomas parecen urgentes. Busquen atencion de emergencia ahora.",
            cautionTitle |-> "Se recomienda consulta medica",
            cautionMessage |-> "Estos sintomas deben revisarse pronto con un medico.",
            routineTitle |-> "Monitorear y seguir indicaciones",
            routineMessage |-> "No se detectaron alertas urgentes, pero sigan observando los sintomas."],
    fr |-> [emergencyTitle |-> "Alerte urgence",
            emergencyMessage |-> "Certains symptomes semblent urgents. Veuillez consulter les urgences maintenant.",
            cautionTitle |-> "Suivi medical recommande",
            cautionMessage |-> "Ces symptomes devraient etre verifies par un medecin rapidement.",
            routineTitle |-> "Surveiller et suivre les conseils",
            routineMessage |-> "Aucun signal urgent detecte, mais continuez a surveiller les symptomes."] ]

\* no triage result yet
NoTriage == [level |-> "none", title |-> "", message |-> "", reasons |-> <<>>]

\* patterns.filter((pattern) => pattern.regex.test(symptoms)).map((pattern) => pattern.reason)
RECURSIVE MatchedReasons(_, _)
MatchedReasons(patterns, symptoms) ==
    IF patterns = <<>> THEN <<>>
    ELSE (IF RegexTest(Head(patterns).regex, symptoms)
          THEN <<Head(patterns).reason>>
          ELSE <<>>) \o MatchedReasons(Tail(patterns), symptoms)

\* table[key] || fallback, as text: an own property of the table; else a
\* property every object inherits from Object.prototype, which is truthy and
\* is not replaced by the fallback; else the fallback
InheritedText ==
    [constructor |-> "function Object() { [native code] }",
     toString |-> "function toString() { [native code] }",
     valueOf |-> "function valueOf() { [native code] }",
     hasOwnProperty |-> "function hasOwnProperty() { [native code] }",
     __proto__ |-> "[object Object]"]

\* a property read that yields undefined, as text
Undefined == "undefined"

\* TRIAGE_COPY[language] || TRIAGE_COPY.en: the copy of the language; else the
\* inherited property of that name, which is truthy and has none of the six
\* strings; else the English copy
TriageCopyFor(language) ==
    IF language \in DOMAIN TRIAGE_COPY THEN TRIAGE_COPY[language]
    ELSE IF language \in DOMAIN InheritedText
    THEN [field \in DOMAIN TRIAGE_COPY.en |-> Undefined]
    ELSE TRIAGE_COPY.en

\* detectTriage with the watch list consulted before the urgent list
detectTriageWatchFirst(symptoms, language) ==
    LET copy == TriageCopyFor(language)
        urgentReasons == MatchedReasons(URGENT_TRIAGE_PATTERNS, symptoms)
        cautionReasons == MatchedReasons(WATCH_TRIAGE_PATTERNS, symptoms)
    IN  IF Len(cautionReasons) > 0
        THEN [level |-> "caution", title |-> copy.cautionTitle,
              message |-> copy.cautionMessage, reasons |-> cautionReasons]
        ELSE IF Len(urgentReasons) > 0
        THEN [level |-> "emergency", title |-> copy.emergencyTitle,
              message |-> copy.emergencyMessage, reasons |-> urgentReasons]
        ELSE [level |-> "routine", title |-> copy.routineTitle,
              message |-> copy.routineMessage, reasons |-> <<>>]

\* detectTriage with cautionReasons.length > 1 for the caution tier
detectTriageWatchOffByOne(symptoms, language) ==
    LET copy == TriageCopyFor(language)
        urgentReasons == MatchedReasons(URGENT_TRIAGE_PATTERNS, symptoms)
        cautionReasons == MatchedReasons(WATCH_TRIAGE_PATTERNS, symptoms)
    IN  IF Len(urgentReasons) > 0
        THEN [level |-> "emergency", title |-> copy.emergencyTitle,
              message |-> copy.emergencyMessage, reasons |-> urgentReasons]
        ELSE IF Len(cautionReasons) > 1
        THEN [level |-> "caution", title |-> copy.cautionTitle,
              message |-> copy.cautionMessage, reasons |-> cautionReasons]
        ELSE [level |-> "routine", title |-> copy.routineTitle,
              message |-> copy.routineMessage, reasons |-> <<>>]

\* detectTriage with cautionReasons.length >= 0 for the caution tier
detectTriageNoRoutine(symptoms, language) ==
    LET copy == TriageCopyFor(language)
        urgentReasons == MatchedReasons(URGENT_TRIAGE_PATTERNS, symptoms)
        cautionReasons == MatchedReasons(WATCH_TRIAGE_PATTERNS, symptoms)
    IN  IF Len(urgentReasons) > 0
        THEN [level |-> "emergency", title |-> copy.emergencyTitle,
              message |-> copy.emergencyMessage, reasons |-> urgentReasons]
        ELSE IF Len(cautionReasons) >= 0
        THEN [level |-> "caution", title |-> copy.cautionTitle,
              message |-> copy.cautionMessage, reasons |-> cautionReasons]
        ELSE [level |-> "routine", title |-> copy.routineTitle,
              message |-> copy.routineMessage, reasons |-> <<>>]

\* detectTriage reporting the urgent and the watch reasons together
detectTriageMergedTiers(symptoms, language) ==
    LET copy == TriageCopyFor(language)
        urgentReasons == MatchedReasons(URGENT_TRIAGE_PATTERNS, symptoms)
        cautionReasons == MatchedReasons(WATCH_TRIAGE_PATTERNS, symptoms)
    IN  IF Len(urgentReasons) > 0
        THEN [level |-> "emergency", title |-> copy.emergencyTitle,
              message |-> copy.emergencyMessage, reasons |-> urgentReasons \o cautionReasons]
        ELSE IF Len(cautionReasons) > 0
        THEN [level |-> "caution", title |-> copy.cautionTitle,
              message |-> copy.cautionMessage, reasons |-> cautionReasons]
        ELSE [level |-> "routine", title |-> copy.routineTitle,
              message |-> copy.routineMessage, reasons |-> <<>>]

detectTriage(symptoms, language) ==
    LET copy == TriageCopyFor(language)
        urgentReasons == MatchedReasons(URGENT_TRIAGE_PATTERNS, symptoms)
        cautionReasons == MatchedReasons(WATCH_TRIAGE_PATTERNS, symptoms)
    IN  IF Len(urgentReasons) > 0
        THEN [level |-> "emergency", title |-> copy.emergencyTitle,
              message |-> copy.emergencyMessage, reasons |-> urgentReasons]
        ELSE IF Len(cautionReasons) > 0
        THEN [level |-> "caution", title |-> copy.cautionTitle,
              message |-> copy.cautionMessage, reasons |-> cautionReasons]
        ELSE [level |-> "routine", title |-> copy.routineTitle,
              message |-> copy.routineMessage, reasons |-> <<>>]

\* The regex literals of the two tables carry the i flag only
HasGlobalFlagSet(pattern) == TRUE
HasGlobalFlag(pattern) == FALSE

\* regex.exec from the 1-based position on: the position after the leftmost
\* match, of its first alternative that matches and its longest end; 0 when
\* there is no match
RegexExecEnd(alts, text, from) ==
    LET EndsAt(i, a) == {e \in MatchEnds(text, i, alts[a], 1) : WordBoundary(text, e)}
        starts == {i \in from..(Len(text) + 1) :
                      WordBoundary(text, i) /\ \E a \in 1..Len(alts) : EndsAt(i, a) # {}}
    IN  IF starts = {} THEN 0
        ELSE LET i == CHOOSE x \in starts : \A y \in starts : x <= y
                 as == {a \in 1..Len(alts) : EndsAt(i, a) # {}}
                 a == CHOOSE x \in as : \A y \in as : x <= y
             IN  CHOOSE e \in EndsAt(i, a) : \A f \in EndsAt(i, a) : f <= e

\* pattern.regex.test(text) on the regex object, whose lastIndex it reads and
\* writes only under the g flag
RegexObjectTest(pattern, text, lastIndex) ==
    IF ~HasGlobalFlag(pattern)
    THEN [matched |-> RegexTest(pattern.regex, text), lastIndex |-> lastIndex]
    ELSE IF lastIndex > Len(text) THEN [matched |-> FALSE, lastIndex |-> 0]
    ELSE LET e == RegexExecEnd(pattern.regex, text, lastIndex + 1)
         IN  IF e = 0 THEN [matched |-> FALSE, lastIndex |-> 0]
             ELSE [matched |-> TRUE, lastIndex |-> e - 1]

RECURSIVE ReasonsWhereMatched(_, _)
ReasonsWhereMatched(patterns, tests) ==
    IF patterns = <<>> THEN <<>>
    ELSE (IF Head(tests).matched THEN <<Head(patterns).reason>> ELSE <<>>)
         \o ReasonsWhereMatched(Tail(patterns), Tail(tests))

\* the lastIndex of the regex objects of the two tables when the module loads
FreshRegexState ==
    [urgent |-> [k \in 1..Len(URGENT_TRIAGE_PATTERNS) |-> 0],
     watch |-> [k \in 1..Len(WATCH_TRIAGE_PATTERNS) |-> 0]]

\* One call of detectTriage on the module's regex objects: what it returns and
\* the state it leaves the objects in
detectTriageCall(symptoms, language, regexState) ==
    LET copy == TriageCopyFor(language)
        urgentTests == [k \in 1..Len(URGENT_TRIAGE_PATTERNS) |->
                           RegexObjectTest(URGENT_TRIAGE_PATTERNS[k], symptoms,
                                           regexState.urgent[k])]
        watchTests == [k \in 1..Len(WATCH_TRIAGE_PATTERNS) |->
                          RegexObjectTest(WATCH_TRIAGE_PATTERNS[k], symptoms,
                                          regexState.watch[k])]
        urgentReasons == ReasonsWhereMatched(URGENT_TRIAGE_PATTERNS, urgentTests)
        cautionReasons == ReasonsWhereMatched(WATCH_TRIAGE_PATTERNS, watchTests)
    IN  [regexState |-> [urgent |-> [k \in 1..Len(urgentTests) |-> urgentTests[k].lastIndex],
                         watch |-> [k \in 1..Len(watchTests) |-> watchTests[k].lastIndex]],
         result |->
             IF Len(urgentReasons) > 0
             THEN [level |-> "emergency", title |-> copy.emergencyTitle,
                   message |-> copy.emergencyMessage, reasons |-> urgentReasons]
             ELSE IF Len(cautionReasons) > 0
             THEN [level |-> "caution", title |-> copy.cautionTitle,
                   message |-> copy.cautionMessage, reasons |-> cautionReasons]
             ELSE [level |-> "routine", title |-> copy.routineTitle,
                   message |-> copy.routineMessage, reasons |-> <<>>]]

(***************************************************************************)
(* Strings and numbers as JavaScript handles them                          *)
(***************************************************************************)

IsSpaceChar(c) == c \in {" ", "\t", "\n"}

RECURSIVE TrimStart(_)
TrimStart(s) ==
    IF s # "" /\ IsSpaceChar(Char(s, 1)) THEN TrimStart(SubSeq(s, 2, Len(s))) ELSE s

RECURSIVE TrimEnd(_)
TrimEnd(s) ==
    IF s # "" /\ IsSpaceChar(Char(s, Len(s))) THEN TrimEnd(SubSeq(s, 1, Len(s) - 1)) ELSE s

\* String.prototype.trim
Trim(s) == TrimEnd(TrimStart(s))

LowerOf == [c \in UpperChars |-> Char(LOWER, CHOOSE i \in Letters : Char(UPPER, i) = c)]

\* String.prototype.toLowerCase on ASCII text
RECURSIVE ToLowerCase(_)
ToLowerCase(s) ==
    IF s = "" THEN ""
    ELSE (IF Char(s, 1) \in UpperChars THEN LowerOf[Char(s, 1)] ELSE Char(s, 1))
         \o ToLowerCase(SubSeq(s, 2, Len(s)))

\* value.replace(/\s+/g, "")
RECURSIVE RemoveWhitespace(_)
RemoveWhitespace(s) ==
    IF s = "" THEN ""
    ELSE (IF IsSpaceChar(Char(s, 1)) THEN "" ELSE Char(s, 1))
         \o RemoveWhitespace(SubSeq(s, 2, Len(s)))

\* parts.join(separator)
RECURSIVE Join(_, _)
Join(parts, separator) ==
    IF parts = <<>> THEN ""
    ELSE IF Len(parts) = 1 THEN parts[1]
    ELSE parts[1] \o separator \o Join(Tail(parts), separator)

\* String(n) for a natural number n
RECURSIVE NumberToString(_)
NumberToString(n) ==
    IF n < 10 THEN Char(DIGITS, n + 1)
    ELSE NumberToString(n \div 10) \o Char(DIGITS, (n % 10) + 1)

DigitValue(c) == (CHOOSE i \in 1..Len(DIGITS) : Char(DIGITS, i) = c) - 1

IsDigits(s) == s # "" /\ \A i \in 1..Len(s) : IsDigitChar(Char(s, i))

RECURSIVE DigitsValue(_)
DigitsValue(s) ==
    IF s = "" THEN 0
    ELSE 10 * DigitsValue(SubSeq(s, 1, Len(s) - 1)) + DigitValue(Char(s, Len(s)))

NaN == [nan |-> TRUE, integer |-> FALSE, value |-> 0]

RECURSIVE Pow(_, _)
Pow(b, k) == IF k = 0 THEN 1 ELSE b * Pow(b, k - 1)

HEXDIGITS == "0123456789abcdef"

\* the value of a digit in the radix, -1 when it is none
RadixDigit(c, radix) ==
    LET found == {i \in 1..radix : Char(HEXDIGITS, i) = ToLowerCase(c)}
    IN  IF found = {} THEN -1 ELSE (CHOOSE i \in found : TRUE) - 1

IsRadixDigits(s, radix) ==
    s # "" /\ \A i \in 1..Len(s) : RadixDigit(Char(s, i), radix) >= 0

RECURSIVE RadixValue(_, _)
RadixValue(s, radix) ==
    IF s = "" THEN 0
    ELSE radix * RadixValue(SubSeq(s, 1, Len(s) - 1), radix) + RadixDigit(Char(s, Len(s)), radix)

\* the radix a 0x, 0o or 0b prefix announces, 0 when there is none
PrefixRadix(s) ==
    IF Len(s) < 2 \/ Char(s, 1) # "0" THEN 0
    ELSE IF Char(s, 2) \in {"x", "X"} THEN 16
    ELSE IF Char(s, 2) \in {"o", "O"} THEN 8
    ELSE IF Char(s, 2) \in {"b", "B"} THEN 2
    ELSE 0

\* digits, with at most one dot and at least one digit
IsDecimalDigits(s) ==
    LET dots == {i \in 1..Len(s) : Char(s, i) = "."}
    IN  /\ Cardinality(dots) <= 1
        /\ Len(s) > Cardinality(dots)
        /\ \A i \in 1..Len(s) : i \in dots \/ IsDigitChar(Char(s, i))

\* an exponent part after the e: an optional sign and digits
IsExponent(s) ==
    LET u == IF s # "" /\ Char(s, 1) \in {"-", "+"} THEN SubSeq(s, 2, Len(s)) ELSE s
    IN  IsDigits(u)

ExponentValue(s) ==
    IF Char(s, 1) = "-" THEN 0 - DigitsValue(SubSeq(s, 2, Len(s)))
    ELSE IF Char(s, 1) = "+" THEN DigitsValue(SubSeq(s, 2, Len(s)))
    ELSE DigitsValue(s)

\* Number(s) for a trimmed, non-empty string, by the grammar of numeric
\* string literals: a 0x, 0o or 0b literal without sign; or an optional sign
\* before Infinity or before decimal digits with an optional fraction and an
\* optional exponent. Anything else is NaN. integer is Number.isInteger of the
\* result and value the result when it is an integer. The arithmetic is exact,
\* as the conversion to a double is for literals of a few digits.
StringToNumber(s) ==
    LET radix == PrefixRadix(s)
        signed == s # "" /\ Char(s, 1) \in {"-", "+"}
        sign == IF signed /\ Char(s, 1) = "-" THEN -1 ELSE 1
        u == IF signed THEN SubSeq(s, 2, Len(s)) ELSE s
        es == {i \in 1..Len(u) : Char(u, i) \in {"e", "E"}}
        e == IF es = {} THEN Len(u) + 1 ELSE CHOOSE i \in es : \A j \in es : i <= j
        mantissa == SubSeq(u, 1, e - 1)
        exponent == SubSeq(u, e + 1, Len(u))
        dots == {i \in 1..Len(mantissa) : Char(mantissa, i) = "."}
        d == IF dots = {} THEN Len(mantissa) + 1 ELSE CHOOSE i \in dots : TRUE
        whole == SubSeq(mantissa, 1, d - 1)
        frac == SubSeq(mantissa, d + 1, Len(mantissa))
        m == DigitsValue(whole \o frac)
        scale == (IF es = {} THEN 0 ELSE ExponentValue(exponent)) - Len(frac)
    IN  IF radix # 0
        THEN IF IsRadixDigits(SubSeq(s, 3, Len(s)), radix)
             THEN [nan |-> FALSE, integer |-> TRUE,
                   value |-> RadixValue(SubSeq(s, 3, Len(s)), radix)]
             ELSE NaN
        ELSE IF u = "Infinity" THEN [nan |-> FALSE, integer |-> FALSE, value |-> 0]
        ELSE IF ~IsDecimalDigits(mantissa) \/ (es # {} /\ ~IsExponent(exponent)) THEN NaN
        ELSE IF m = 0 THEN [nan |-> FALSE, integer |-> TRUE, value |-> 0]
        ELSE IF scale >= 0
        THEN [nan |-> FALSE, integer |-> TRUE, value |-> sign * m * Pow(10, scale)]
        ELSE [nan |-> FALSE,
              integer |-> m % Pow(10, 0 - scale) = 0,
              value |-> sign * (m \div Pow(10, 0 - scale))]

\* s repeated n times
RECURSIVE Repeat(_, _)
Repeat(s, n) ==
    IF n = 0 THEN ""
    ELSE IF n % 2 = 0 THEN LET half == Repeat(s, n \div 2) IN half \o half
    ELSE s \o Repeat(s, n - 1)

(***************************************************************************)
(* Server configuration                                                    *)
(***************************************************************************)

PROVIDER_PRIORITY_GroqFirst == <<"groq", "gemini", "anthropic">>
PROVIDER_PRIORITY == <<"gemini", "groq", "anthropic">>
IMAGE_MIME_TYPES == {"image/jpeg", "image/png", "image/webp"}
ALLOWED_UPLOAD_MIME_TYPES == IMAGE_MIME_TYPES \cup {"application/pdf", "text/plain"}
SUPPORTED_LANGUAGES == <<"en", "es", "fr">>
LANGUAGE_NAMES_EnglishOnly == [en |-> "English", es |-> "English", fr |-> "English"]
LANGUAGE_NAMES == [en |-> "English", es |-> "Spanish", fr |-> "French"]
SUPPORTED_READING_LEVELS == <<"very_simple", "simple", "detailed">>
READING_LEVEL_PROMPTS == [
    very_simple |-> "Use very short sentences and very simple words for younger children.",
    simple |-> "Use simple child-friendly language with clear examples.",
    detailed |-> "Use child-friendly language with slightly more detail for older children."]

DEFAULT_GEMINI_MODEL == "gemini-2.5-flash"
DEFAULT_GROQ_MODEL == "meta-llama/llama-4-scout-17b-16e-instruct"
DEFAULT_ANTHROPIC_MODEL == "claude-sonnet-4-20250514"

\* The keys of the overrides object that carry a credential
CredentialKeys == {"geminiApiKey", "groqApiKey", "anthropicApiKey", "apiKey"}

\* The value the overrides give a key: the credential, or "" when the key is
\* not among them (the environment holds no credential)
OverrideValue(ov, key) == IF \E i \in 1..Len(ov) : ov[i] = key THEN "test-key" ELSE ""

\* the upload limit the application is created with, in bytes
MaxFileBytes == 24

createServerConfig(ov, fetchOk) ==
    LET resolved == [geminiApiKey |-> OverrideValue(ov, "geminiApiKey"),
                     groqApiKey |-> OverrideValue(ov, "groqApiKey"),
                     anthropicApiKey |-> OverrideValue(ov, "anthropicApiKey"),
                     apiKey |-> OverrideValue(ov, "apiKey"),
                     geminiModel |-> DEFAULT_GEMINI_MODEL,
                     groqModel |-> DEFAULT_GROQ_MODEL,
                     anthropicModel |-> DEFAULT_ANTHROPIC_MODEL,
                     maxFileBytes |-> MaxFileBytes,
                     fetchImplIsFunction |-> fetchOk]
    IN  IF resolved.apiKey # "" /\ resolved.anthropicApiKey = ""
        THEN [resolved EXCEPT !.anthropicApiKey = resolved.apiKey]
        ELSE resolved

(***************************************************************************)
(* Input validation: createDiagnosisSchema                                 *)
(*                                                                         *)
(* A request body is a record holding the fields the JSON object has. age  *)
(* is [t |-> "string", s |-> ..] or [t |-> "number", n |-> ..]; file is    *)
(* NullFile or a record of base64, mimeType, isImage and maybe fileName.   *)
(***************************************************************************)

MinSymptoms == 3
MaxSymptoms == 1500
MaxName == 50
MinBase64 == 16
MaxBase64 == 6000000
MinMimeType == 3
MaxMimeType == 120
MaxFileName == 200
MinAge == 1
MaxAge == 18
BytesPerMB == 1048576

NullFile == [null |-> TRUE]

Field(body, name, default) == IF name \in DOMAIN body THEN body[name] ELSE default

IsMember(seq, v) == \E i \in 1..Len(seq) : seq[i] = v

EnumMessage(options, received) ==
    "Invalid enum value. Expected '" \o Join(options, "' | '") \o "', received '"
        \o received \o "'"

\* Each check yields [issues |-> messages in the order raised, aborted |->
\* whether parsing of the value stopped (a later refinement does not run)]
Checked(issues, aborted) == [issues |-> issues, aborted |-> aborted]

CheckSymptoms(body) ==
    IF "symptoms" \notin DOMAIN body THEN Checked(<<"Required">>, TRUE)
    ELSE LET v == Trim(body.symptoms)
         IN  Checked((IF Len(v) < MinSymptoms THEN <<"Please provide symptoms.">> ELSE <<>>)
                     \o (IF Len(v) > MaxSymptoms THEN <<"Symptoms are too long.">> ELSE <<>>),
                     FALSE)

CheckName(body) ==
    IF "name" \notin DOMAIN body THEN Checked(<<>>, FALSE)
    ELSE Checked(IF Len(Trim(body.name)) > MaxName THEN <<"Name is too long.">> ELSE <<>>,
                 FALSE)

\* age: z.union([z.string(), z.number()]): a value of another type fits no
\* member of the union, and the parse of the object stops short of its refinement
CheckAgeType(body) ==
    IF "age" \notin DOMAIN body \/ body.age.t \in {"string", "number"}
    THEN Checked(<<>>, FALSE)
    ELSE Checked(<<"Invalid input">>, TRUE)

CheckEnumLenient(body, name, options) == Checked(<<>>, FALSE)
CheckEnum(body, name, options) ==
    IF name \notin DOMAIN body \/ IsMember(options, body[name])
    THEN Checked(<<>>, FALSE)
    ELSE Checked(<<EnumMessage(options, body[name])>>, TRUE)

\* estimateBase64Size
estimateBase64Size(base64Payload) ==
    LET normalized == RemoveWhitespace(base64Payload)
        n == Len(normalized)
        padding == IF n >= 2 /\ SubSeq(normalized, n - 1, n) = "==" THEN 2
                   ELSE IF n >= 1 /\ Char(normalized, n) = "=" THEN 1
                   ELSE 0
    IN  ((n * 3) \div 4) - padding

Base64Chars == (WordChars \ {"_"}) \cup {"+", "/", "="}

\* /^[A-Za-z0-9+/=]+$/.test(s)
IsBase64Charset(s) == s # "" /\ \A i \in 1..Len(s) : Char(s, i) \in Base64Chars

\* the superRefine of the file object
RefineFileNoAllowList(file, maxFileBytes) ==
    LET normalizedMimeType == ToLowerCase(file.mimeType)
        cleanBase64 == RemoveWhitespace(file.base64)
    IN  (IF ~IsBase64Charset(cleanBase64)
         THEN <<"Uploaded file content is invalid.">> ELSE <<>>)
        \o (IF file.isImage /\ normalizedMimeType \notin IMAGE_MIME_TYPES
            THEN <<"Image uploads must be JPEG, PNG, or WEBP.">> ELSE <<>>)
        \o (IF estimateBase64Size(cleanBase64) > maxFileBytes
            THEN <<"File is too large. Max size is "
                    \o NumberToString(maxFileBytes \div BytesPerMB) \o "MB.">>
            ELSE <<>>)
RefineFile(file, maxFileBytes) ==
    LET normalizedMimeType == ToLowerCase(file.mimeType)
        cleanBase64 == RemoveWhitespace(file.base64)
    IN  (IF ~IsBase64Charset(cleanBase64)
         THEN <<"Uploaded file content is invalid.">> ELSE <<>>)
        \o (IF normalizedMimeType \notin ALLOWED_UPLOAD_MIME_TYPES
            THEN <<"Unsupported upload type. Use JPEG, PNG, WEBP, PDF, or TXT.">> ELSE <<>>)
        \o (IF file.isImage /\ normalizedMimeType \notin IMAGE_MIME_TYPES
            THEN <<"Image uploads must be JPEG, PNG, or WEBP.">> ELSE <<>>)
        \o (IF estimateBase64Size(cleanBase64) > maxFileBytes
            THEN <<"File is too large. Max size is "
                    \o NumberToString(maxFileBytes \div BytesPerMB) \o "MB.">>
            ELSE <<>>)

\* the parsed file object: mimeType and fileName trimmed, fileName defaulted
ParsedFile(file) ==
    [base64 |-> file.base64,
     mimeType |-> Trim(file.mimeType),
     fileName |-> Trim(Field(file, "fileName", "upload")),
     isImage |-> file.isImage]

CheckFile(body, maxFileBytes) ==
    IF "file" \notin DOMAIN body \/ body.file = NullFile THEN Checked(<<>>, FALSE)
    ELSE LET file == body.file
             parsed == ParsedFile(file)
             fields ==
                 (IF Len(file.base64) < MinBase64 THEN <<"Invalid file content.">> ELSE <<>>)
                 \o (IF Len(file.base64) > MaxBase64 THEN <<"File payload is too large.">> ELSE <<>>)
                 \o (IF Len(parsed.mimeType) < MinMimeType
                     THEN <<"String must contain at least 3 character(s)">> ELSE <<>>)
                 \o (IF Len(parsed.mimeType) > MaxMimeType
                     THEN <<"String must contain at most 120 character(s)">> ELSE <<>>)
                 \o (IF Len(parsed.fileName) > MaxFileName
                     THEN <<"String must contain at most 200 character(s)">> ELSE <<>>)
         IN  Checked(fields \o RefineFile(parsed, maxFileBytes), FALSE)

\* String(n) for a number of a JSON body: n is its integer part, tenths its
\* first decimal (no field when it is a whole number), negative its sign when
\* the integer part is 0
NumberText(age) ==
    LET tenths == Field(age, "tenths", 0)
        magnitude == IF age.n < 0 THEN 0 - age.n ELSE age.n
        minus == (age.n < 0 \/ Field(age, "negative", FALSE)) /\ (magnitude # 0 \/ tenths # 0)
    IN  (IF minus THEN "-" ELSE "")
        \o NumberToString(magnitude)
        \o (IF tenths = 0 THEN "" ELSE "." \o NumberToString(tenths))

\* String(value.age ?? "")
AgeToString(age) == IF age.t = "number" THEN NumberText(age) ELSE age.s

NoAge == [t |-> "string", s |-> ""]

RefineAgeTruncating(body) ==
    LET normalizedAge == Trim(AgeToString(Field(body, "age", NoAge)))
        ageNumber == StringToNumber(normalizedAge)
    IN  IF normalizedAge = "" THEN <<>>
        ELSE IF ageNumber.nan \/ ageNumber.value < MinAge \/ ageNumber.value > MaxAge
        THEN <<"Age must be a whole number from 1 to 18.">>
        ELSE <<>>

\* the superRefine of the whole object: the age range
RefineAge(body) ==
    LET normalizedAge == Trim(AgeToString(Field(body, "age", NoAge)))
        ageNumber == StringToNumber(normalizedAge)
    IN  IF normalizedAge = "" THEN <<>>
        ELSE IF ageNumber.nan \/ ~ageNumber.integer
                \/ ageNumber.value < MinAge \/ ageNumber.value > MaxAge
        THEN <<"Age must be a whole number from 1 to 18.">>
        ELSE <<>>

\* diagnosisSchema.safeParse(body).error.issues, as messages: the fields in
\* schema order, the file's refinement with the file, the age refinement last
\* and only when no field stopped the parsing
SchemaIssues(body, maxFileBytes) ==
    LET checks == <<CheckSymptoms(body), CheckName(body), CheckAgeType(body),
                    CheckEnum(body, "language", SUPPORTED_LANGUAGES),
                    CheckEnum(body, "readingLevel", SUPPORTED_READING_LEVELS),
                    CheckFile(body, maxFileBytes)>>
        aborted == \E i \in 1..Len(checks) : checks[i].aborted
        fieldIssues == checks[1].issues \o checks[2].issues \o checks[3].issues
                       \o checks[4].issues \o checks[5].issues \o checks[6].issues
    IN  fieldIssues \o (IF aborted THEN <<>> ELSE RefineAge(body))

\* parsed.data: the values after trimming and defaults
ParsedData(body) ==
    [symptoms |-> Trim(body.symptoms),
     name |-> Trim(Field(body, "name", "")),
     age |-> Field(body, "age", NoAge),
     language |-> Field(body, "language", "en"),
     readingLevel |-> Field(body, "readingLevel", "simple"),
     file |-> IF "file" \in DOMAIN body /\ body.file # NullFile
              THEN ParsedFile(body.file) ELSE NullFile]

(***************************************************************************)
(* Prompt construction                                                     *)
(***************************************************************************)

\* table[key] || fallback, as text
LookupOr(table, key, fallback) ==
    IF key \in DOMAIN table THEN table[key]
    ELSE IF key \in DOMAIN InheritedText THEN InheritedText[key]
    ELSE fallback

buildSystemPrompt(childName, childAge, language, readingLevel, triageLevel) ==
    LET languageName == LookupOr(LANGUAGE_NAMES, language, LANGUAGE_NAMES.en)
        readingInstruction == LookupOr(READING_LEVEL_PROMPTS, readingLevel,
                                       READING_LEVEL_PROMPTS.simple)
        emergencyInstruction ==
            IF triageLevel = "emergency"
            THEN "- Start with a direct warning to seek emergency care immediately."
            ELSE "- If symptoms may need urgent care, clearly say so."
    IN  "You are Dr. Buddy, a friendly doctor AI for children ages 4-14.\n"
        \o "Keep your response warm, calm, and simple for " \o childName
        \o " who is " \o childAge \o ".\n"
        \o "Rules:\n"
        \o "- Respond in " \o languageName \o ".\n"
        \o "- " \o readingInstruction \o "\n"
        \o "- Use short clear sentences with supportive tone.\n"
        \o "- Avoid scary language and avoid medical jargon.\n"
        \o "- Do not provide diagnosis certainty.\n"
        \o "- Always remind the user this is educational and they should see a real doctor for concerning symptoms.\n"
        \o "- " \o emergencyInstruction \o "\n"
        \o "- Keep response under 250 words.\n"
        \o "- Return these sections:\n"
        \o "1. What might be happening\n"
        \o "2. What can help at home\n"
        \o "3. Should you see a doctor?\n"
        \o "4. Encouragement"

\* file?.base64 is set
HasUpload(file) == file # NullFile /\ file.base64 # ""

buildUserText(symptoms, childName, childAge, language, readingLevel, file) ==
    "Hi Dr. Buddy. I am " \o childName \o ", " \o childAge \o ". My symptoms: "
    \o symptoms \o ". Preferred language: " \o language \o ". Reading level: "
    \o readingLevel \o "."
    \o (IF HasUpload(file) /\ file.isImage
        THEN " I uploaded a lab image. Please read and explain it simply for a child."
        ELSE IF HasUpload(file) /\ ~file.isImage
        THEN " I uploaded a non-image file. Please provide advice from symptoms only."
        ELSE "")

(***************************************************************************)
(* Provider adapters                                                       *)
(*                                                                         *)
(* An outbound call is [provider, url, auth, system, text, image]: the     *)
(* parts of the provider's request body that the request fills in. image   *)
(* is NoImage or the inlined base64 block.                                 *)
(***************************************************************************)

NoImage == [none |-> TRUE]

ImageBlockAlways(file) ==
    IF HasUpload(file)
    THEN [mediaType |-> file.mimeType, data |-> file.base64]
    ELSE NoImage
ImageBlock(file) ==
    IF HasUpload(file) /\ file.isImage
    THEN [mediaType |-> file.mimeType, data |-> file.base64]
    ELSE NoImage

\* requestGeminiDiagnosis up to the fetch (model name and key hold only
\* characters that encodeURIComponent leaves as they are)
GeminiRequest(config, systemPrompt, userText, file) ==
    [provider |-> "gemini",
     url |-> "https://generativelanguage.googleapis.com/v1beta/models/"
             \o config.geminiModel \o ":generateContent?key=" \o config.geminiApiKey,
     auth |-> "",
     model |-> config.geminiModel,
     system |-> systemPrompt,
     text |-> userText,
     image |-> ImageBlock(file)]

GroqRequest(config, systemPrompt, userText, file) ==
    [provider |-> "groq",
     url |-> "https://api.groq.com/openai/v1/chat/completions",
     auth |-> "Bearer " \o config.groqApiKey,
     model |-> config.groqModel,
     system |-> systemPrompt,
     text |-> userText,
     image |-> ImageBlock(file)]

\* buildAnthropicUserContent is the image block and the text block
AnthropicRequest(config, systemPrompt, userText, file) ==
    [provider |-> "anthropic",
     url |-> "https://api.anthropic.com/v1/messages",
     auth |-> config.anthropicApiKey,
     model |-> config.anthropicModel,
     system |-> systemPrompt,
     text |-> userText,
     image |-> ImageBlock(file)]

\* What the network can answer. A body is MalformedBody (response.json()
\* rejects) or a JSON object: [json |-> "object"] with, when present,
\*   error:      [t |-> "object", message |-> ..] or [t |-> "string", s |-> ..]
\*   candidates: the parts texts of each candidate        (Gemini)
\*   choices:    the message content of each choice,
\*               [t |-> "string", s |-> ..] or [t |-> "array", parts |-> ..] (Groq)
\*   content:    the blocks [type |-> .., text |-> ..]     (Anthropic)
MalformedBody == [json |-> "malformed"]
EmptyObject == [json |-> "object"]

\* response.json().catch(() => ({}))
parseJsonSafe(body) == IF body.json = "malformed" THEN EmptyObject ELSE body

\* data?.error?.message, "" when there is none
ErrorMessageOf(data) ==
    IF "error" \in DOMAIN data /\ data.error.t = "object" THEN data.error.message ELSE ""

extractGeminiText(data) ==
    IF "candidates" \in DOMAIN data /\ Len(data.candidates) > 0
    THEN Trim(Join(data.candidates[1], "\n"))
    ELSE ""

extractGroqText(data) ==
    IF "choices" \in DOMAIN data /\ Len(data.choices) > 0
    THEN LET content == data.choices[1]
         IN  IF content.t = "string" THEN Trim(content.s)
             ELSE Trim(Join(content.parts, "\n"))
    ELSE ""

\* a block of the content array that is the JSON value null
NullBlock == [null |-> TRUE]

\* block.type of a null block: the TypeError the engine throws
NullBlockError == "Cannot read properties of null (reading 'type')"

\* the map over data.content reads block.type of every block
extractAnthropicTextThrows(data) ==
    "content" \in DOMAIN data /\ \E i \in 1..Len(data.content) : data.content[i] = NullBlock

extractAnthropicText(data) ==
    IF "content" \in DOMAIN data
    THEN Trim(Join([i \in 1..Len(data.content) |->
                       IF data.content[i].type = "text" THEN data.content[i].text ELSE ""],
                   "\n"))
    ELSE ""

\* An adapter returns its text or throws an Error with a message
Returned(text) == [ok |-> TRUE, text |-> text, message |-> ""]
Thrown(message) == [ok |-> FALSE, text |-> "", message |-> message]

\* requestGeminiDiagnosis from the parsed body on
GeminiResultAcceptsEmpty(ok, data) ==
    IF ~ok
    THEN Thrown(IF ErrorMessageOf(data) # "" THEN ErrorMessageOf(data)
                ELSE "Gemini request failed.")
    ELSE Returned(extractGeminiText(data))
GeminiResult(ok, data) ==
    IF ~ok
    THEN Thrown(IF ErrorMessageOf(data) # "" THEN ErrorMessageOf(data)
                ELSE "Gemini request failed.")
    ELSE IF extractGeminiText(data) = "" THEN Thrown("Gemini returned an empty response.")
    ELSE Returned(extractGeminiText(data))

\* data?.error?.message || data?.error || "Groq request failed."
GroqResultNoDefault(ok, data) ==
    IF ~ok
    THEN Thrown(ErrorMessageOf(data))
    ELSE IF extractGroqText(data) = "" THEN Thrown("Groq returned an empty response.")
    ELSE Returned(extractGroqText(data))
GroqResult(ok, data) ==
    IF ~ok
    THEN Thrown(IF ErrorMessageOf(data) # "" THEN ErrorMessageOf(data)
                ELSE IF "error" \in DOMAIN data /\ data.error.t = "string" /\ data.error.s # ""
                THEN data.error.s
                ELSE IF "error" \in DOMAIN data /\ data.error.t = "object"
                THEN "[object Object]"
                ELSE "Groq request failed.")
    ELSE IF extractGroqText(data) = "" THEN Thrown("Groq returned an empty response.")
    ELSE Returned(extractGroqText(data))

AnthropicResult(ok, data) ==
    IF ~ok
    THEN Thrown(IF ErrorMessageOf(data) # "" THEN ErrorMessageOf(data)
                ELSE "Anthropic request failed.")
    ELSE IF extractAnthropicTextThrows(data) THEN Thrown(NullBlockError)
    ELSE IF extractAnthropicText(data) = "" THEN Thrown("Anthropic returned an empty response.")
    ELSE Returned(extractAnthropicText(data))

\* provider.request(): the call that is sent, and what the adapter makes of
\* the answer
ProviderRequest(name, config, systemPrompt, userText, file) ==
    IF name = "gemini" THEN GeminiRequest(config, systemPrompt, userText, file)
    ELSE IF name = "groq" THEN GroqRequest(config, systemPrompt, userText, file)
    ELSE AnthropicRequest(config, systemPrompt, userText, file)

ProviderResult(name, ok, data) ==
    IF name = "gemini" THEN GeminiResult(ok, data)
    ELSE IF name = "groq" THEN GroqResult(ok, data)
    ELSE AnthropicResult(ok, data)

(***************************************************************************)
(* POST /api/diagnose and requestWithFallback                              *)
(*                                                                         *)
(* The state of one request: pc is the await the handler is suspended at   *)
(* ("awaitFetch": config.fetchImpl(...), "awaitJson": response.json()),    *)
(* attempt the index in PROVIDER_PRIORITY of the provider being tried,     *)
(* calls the calls made on the transport, replies what the transport       *)
(* answered to each, res the HTTP response sent, sent how many were sent.  *)
(***************************************************************************)

Reqs == {"r1", "r2"}

NoBody == [none |-> TRUE]
NoResponse == [status |-> 0]

IdleReq ==
    [pc |-> "idle", body |-> NoBody, payload |-> NoBody, triage |-> NoTriage,
     childName |-> "", childAge |-> "", systemPrompt |-> "", userText |-> "",
     attempt |-> 0, responseOk |-> FALSE, errors |-> <<>>,
     calls |-> <<>>, replies |-> <<>>, res |-> NoResponse, sent |-> 0]

\* res.status(..).json(..): sent counts the responses written for the request
Respond(st, res) == [st EXCEPT !.pc = "responded", !.res = res, !.sent = @ + 1]

providers(config) ==
    <<[name |-> "gemini", enabled |-> config.geminiApiKey # ""],
      [name |-> "groq", enabled |-> config.groqApiKey # ""],
      [name |-> "anthropic", enabled |-> config.anthropicApiKey # ""]>>

IsEnabled(provider) == provider.enabled

enabledProviders(config) == SelectSeq(providers(config), IsEnabled)

\* enabledProviders.find((entry) => entry.name === providerName) finds one
FindsProvider(config, providerName) ==
    \E i \in 1..Len(enabledProviders(config)) : enabledProviders(config)[i].name = providerName

\* The for-loop over the priority list from index k on: the index of the next
\* provider that is found, 0 when the loop runs out
NextAttempt(priority, config, k) ==
    LET found == {j \in k..Len(priority) : FindsProvider(config, priority[j])}
    IN  IF found = {} THEN 0 ELSE CHOOSE j \in found : \A i \in found : j <= i

UpstreamFailureSwallowed(st, message) == [st EXCEPT !.pc = "returned"]

\* res.status(502).json({ error: error.message || "Could not reach ..." })
UpstreamFailure(st, message) ==
    Respond(st, [status |-> 502,
                 error |-> IF message # "" THEN message
                           ELSE "Could not reach AI provider. Please try again."])

\* The loop of requestWithFallback from index k on, up to its next await: the
\* next provider found is called, or the loop ends and the aggregate error is
\* thrown to the handler
ContinueFallback(config, st, k) ==
    LET j == NextAttempt(PROVIDER_PRIORITY, config, k)
    IN  IF j = 0
        THEN UpstreamFailure(st, "All providers failed. " \o Join(st.errors, " | "))
        ELSE [st EXCEPT !.pc = "awaitFetch",
                        !.attempt = j,
                        !.calls = Append(@, ProviderRequest(PROVIDER_PRIORITY[j], config,
                                               st.systemPrompt, st.userText, st.payload.file))]

requestWithFallbackParallel(config, st) ==
    IF Len(enabledProviders(config)) = 0
    THEN UpstreamFailure(st, "No AI provider key configured.")
    ELSE LET first == ContinueFallback(config, [st EXCEPT !.errors = <<>>], 1)
             j == NextAttempt(PROVIDER_PRIORITY, config, first.attempt + 1)
         IN  IF j = 0 THEN first
             ELSE [first EXCEPT !.calls = Append(@, ProviderRequest(PROVIDER_PRIORITY[j], config,
                                                        st.systemPrompt, st.userText,
                                                        st.payload.file))]
requestWithFallback(config, st) ==
    IF Len(enabledProviders(config)) = 0
    THEN UpstreamFailure(st, "No AI provider key configured.")
    ELSE ContinueFallback(config, [st EXCEPT !.errors = <<>>], 1)

\* catch (error) { errors.push(`${provider.name}: ${error.message || "failed"}`) }
\* and the loop goes on
AttemptFailedAbort(config, st, message) ==
    UpstreamFailure(st, PROVIDER_PRIORITY[st.attempt] \o ": " \o message)
AttemptFailedOverwrite(config, st, message) ==
    ContinueFallback(config,
        [st EXCEPT !.errors = <<PROVIDER_PRIORITY[st.attempt] \o ": "
                                  \o (IF message # "" THEN message ELSE "failed")>>],
        st.attempt + 1)
AttemptFailedRetry(config, st, message) ==
    ContinueFallback(config,
        [st EXCEPT !.errors = Append(@, PROVIDER_PRIORITY[st.attempt] \o ": "
                                        \o (IF message # "" THEN message ELSE "failed"))],
        st.attempt)
AttemptFailedSharedErrors(config, st, message) ==
    ContinueFallback(config,
        [st EXCEPT !.errors = Append(req["r1"].errors \o req["r2"].errors,
                                     PROVIDER_PRIORITY[st.attempt] \o ": "
                                     \o (IF message # "" THEN message ELSE "failed"))],
        st.attempt + 1)
AttemptFailed(config, st, message) ==
    ContinueFallback(config,
        [st EXCEPT !.errors = Append(@, PROVIDER_PRIORITY[st.attempt] \o ": "
                                        \o (IF message # "" THEN message ELSE "failed"))],
        st.attempt + 1)

\* return { provider: provider.name, text } and the handler's res.json(...)
\* (handoff.createdAt, the time of the response, is left out)
AttemptSucceededKeepGoing(config, st, text) ==
    LET j == NextAttempt(PROVIDER_PRIORITY, config, st.attempt + 1)
    IN  IF j # 0
        THEN [st EXCEPT !.pc = "awaitFetch",
                        !.attempt = j,
                        !.calls = Append(@, ProviderRequest(PROVIDER_PRIORITY[j], config,
                                               st.systemPrompt, st.userText, st.payload.file))]
        ELSE Respond(st, [status |-> 200,
                          result |-> text,
                          provider |-> PROVIDER_PRIORITY[st.attempt],
                          triage |-> st.triage,
                          handoff |-> [childName |-> st.childName,
                                       childAge |-> st.childAge,
                                       symptoms |-> st.payload.symptoms,
                                       language |-> st.payload.language,
                                       readingLevel |-> st.payload.readingLevel]])
AttemptSucceeded(config, st, text) ==
    Respond(st, [status |-> 200,
                 result |-> text,
                 provider |-> PROVIDER_PRIORITY[st.attempt],
                 triage |-> st.triage,
                 handoff |-> [childName |-> st.childName,
                              childAge |-> st.childAge,
                              symptoms |-> st.payload.symptoms,
                              language |-> st.payload.language,
                              readingLevel |-> st.payload.readingLevel]])

\* !config.geminiApiKey && !config.groqApiKey && !config.anthropicApiKey
MissingProviderKeysNever(config) == FALSE
MissingProviderKeys(config) ==
    config.geminiApiKey = "" /\ config.groqApiKey = "" /\ config.anthropicApiKey = ""

AgeTextUntrimmed(age) ==
    IF age.t = "number" THEN NumberText(age) ELSE age.s

\* String(payload.age || "").trim()
AgeText(age) ==
    IF age.t = "number"
    THEN (IF age.n = 0 /\ Field(age, "tenths", 0) = 0 THEN "" ELSE NumberText(age))
    ELSE Trim(age.s)

\* The handler from the validated payload to the first await inside
\* requestWithFallback
DiagnoseRoutinePrompt(config, st, payload) ==
    LET childName == IF payload.name # "" THEN payload.name ELSE "little friend"
        ageText == AgeText(payload.age)
        childAge == IF ageText # "" THEN ageText \o " years old" ELSE "a young child"
        triage == detectTriage(payload.symptoms, payload.language)
        systemPrompt == buildSystemPrompt(childName, childAge, payload.language,
                                          payload.readingLevel, "routine")
        userText == buildUserText(payload.symptoms, childName, childAge,
                                  payload.language, payload.readingLevel, payload.file)
    IN  requestWithFallback(config,
            [st EXCEPT !.payload = payload, !.triage = triage,
                       !.childName = childName, !.childAge = childAge,
                       !.systemPrompt = systemPrompt, !.userText = userText])
Diagnose(config, st, payload) ==
    LET childName == IF payload.name # "" THEN payload.name ELSE "little friend"
        ageText == AgeText(payload.age)
        childAge == IF ageText # "" THEN ageText \o " years old" ELSE "a young child"
        triage == detectTriage(payload.symptoms, payload.language)
        systemPrompt == buildSystemPrompt(childName, childAge, payload.language,
                                          payload.readingLevel, triage.level)
        userText == buildUserText(payload.symptoms, childName, childAge,
                                  payload.language, payload.readingLevel, payload.file)
    IN  requestWithFallback(config,
            [st EXCEPT !.payload = payload, !.triage = triage,
                       !.childName = childName, !.childAge = childAge,
                       !.systemPrompt = systemPrompt, !.userText = userText])

ValidationFailureLastIssue(st, issues) ==
    Respond(st, [status |-> 400, error |-> issues[Len(issues)]])

\* parsed.success is false: res.status(400) with the first issue's message
ValidationFailure(st, issues) ==
    Respond(st, [status |-> 400,
                 error |-> IF issues[1] # "" THEN issues[1] ELSE "Invalid input payload."])

\* The handler of POST /api/diagnose up to its first await
\* (HandleDiagnoseUnvalidated: a payload with issues goes on when it has symptoms)
HandleDiagnoseUnvalidated(config, st, body) ==
    IF MissingProviderKeys(config)
    THEN Respond(st, [status |-> 500,
                      error |-> "Server is missing provider keys. Configure GEMINI_API_KEY, GROQ_API_KEY, or ANTHROPIC_API_KEY."])
    ELSE IF ~config.fetchImplIsFunction
    THEN Respond(st, [status |-> 500, error |-> "Server fetch client is not configured."])
    ELSE IF "symptoms" \notin DOMAIN body
    THEN ValidationFailure(st, SchemaIssues(body, config.maxFileBytes))
    ELSE Diagnose(config, st, ParsedData(body))
HandleDiagnoseValidatesFirst(config, st, body) ==
    IF SchemaIssues(body, config.maxFileBytes) # <<>>
    THEN ValidationFailure(st, SchemaIssues(body, config.maxFileBytes))
    ELSE IF MissingProviderKeys(config)
    THEN Respond(st, [status |-> 500,
                      error |-> "Server is missing provider keys. Configure GEMINI_API_KEY, GROQ_API_KEY, or ANTHROPIC_API_KEY."])
    ELSE IF ~config.fetchImplIsFunction
    THEN Respond(st, [status |-> 500, error |-> "Server fetch client is not configured."])
    ELSE Diagnose(config, st, ParsedData(body))
HandleDiagnose(config, st, body) ==
    IF MissingProviderKeys(config)
    THEN Respond(st, [status |-> 500,
                      error |-> "Server is missing provider keys. Configure GEMINI_API_KEY, GROQ_API_KEY, or ANTHROPIC_API_KEY."])
    ELSE IF ~config.fetchImplIsFunction
    THEN Respond(st, [status |-> 500, error |-> "Server fetch client is not configured."])
    ELSE IF SchemaIssues(body, config.maxFileBytes) # <<>>
    THEN ValidationFailure(st, SchemaIssues(body, config.maxFileBytes))
    ELSE Diagnose(config, st, ParsedData(body))

(***************************************************************************)
(* The requests and the answers of the network                             *)
(***************************************************************************)

SampleBase64 == "aGVsbG8gd29ybGQ="
LargeBase64 == "aGVsbG8gd29ybGQgaGVsbG8gd29ybGQgaGVsbG8gd29ybGQ="

PngFile == [base64 |-> SampleBase64, mimeType |-> "image/png", fileName |-> "lab.png",
            isImage |-> TRUE]
PdfFile == [base64 |-> SampleBase64, mimeType |-> " application/pdf ", isImage |-> FALSE]
\* a picture that the client did not flag as an image, its type in capitals
ScanFile == [base64 |-> SampleBase64, mimeType |-> "IMAGE/PNG", fileName |-> "scan.png",
             isImage |-> FALSE]
\* a picture flagged as an image, its type in mixed case
PhotoFile == [base64 |-> SampleBase64, mimeType |-> "Image/PNG", fileName |-> "photo.PNG",
              isImage |-> TRUE]

ValidBodies ==
    {[symptoms |-> "mild headache"],
     [symptoms |-> "My child can't breathe and has chest pain", language |-> "es",
      readingLevel |-> "very_simple"],
     [symptoms |-> "  itchy seizures ", name |-> " Mia ", age |-> [t |-> "string", s |-> " 8 "],
      file |-> PngFile],
     [symptoms |-> "a cough", age |-> [t |-> "number", n |-> 18], language |-> "fr",
      readingLevel |-> "detailed", file |-> PdfFile],
     [symptoms |-> "sore throat", name |-> "  ", age |-> [t |-> "string", s |-> "\t "],
      file |-> ScanFile],
     [symptoms |-> "earache", name |-> "Leo", file |-> PhotoFile]}

\* bodies that violate several constraints at once
BrokenLargeBase64 == "aGVsbG8gd29ybGQgaGVsbG8gd29ybGQgaGVsbG8gd29y*GQ="

SeveralViolations ==
    {[symptoms |-> "headache", age |-> [t |-> "string", s |-> "40"],
      file |-> [base64 |-> BrokenLargeBase64, mimeType |-> "video/mp4", isImage |-> TRUE]],
     [symptoms |-> "headache", age |-> [t |-> "string", s |-> "40"],
      file |-> [base64 |-> LargeBase64, mimeType |-> "video/mp4", isImage |-> TRUE]],
     [symptoms |-> "headache", age |-> [t |-> "number", n |-> 0],
      file |-> [base64 |-> LargeBase64, mimeType |-> "application/pdf", isImage |-> TRUE]],
     [symptoms |-> "headache", age |-> [t |-> "string", s |-> "x"],
      file |-> [base64 |-> LargeBase64, mimeType |-> "image/webp", isImage |-> TRUE]],
     [symptoms |-> " hi ", name |-> Repeat("n", MaxName + 1),
      file |-> [base64 |-> "abc", mimeType |-> "x", isImage |-> FALSE]],
     [symptoms |-> "headache", name |-> Repeat("n", MaxName + 1), language |-> "de",
      file |-> [base64 |-> "abc", mimeType |-> "x", isImage |-> FALSE]],
     [symptoms |-> "headache", age |-> [t |-> "string", s |-> "-1"],
      file |-> [base64 |-> "aGVsbG8*", mimeType |-> "zz", isImage |-> TRUE]],
     [symptoms |-> "headache", age |-> [t |-> "boolean"], language |-> "de",
      readingLevel |-> "expert"]}

InvalidBodies ==
    {[name |-> "Mia"],
     [symptoms |-> " hi "],
     [symptoms |-> Repeat("a", MaxSymptoms + 1)],
     [symptoms |-> "headache", name |-> Repeat("n", MaxName + 1)],
     [symptoms |-> "headache", language |-> "de"],
     [symptoms |-> "headache", readingLevel |-> "expert"],
     [symptoms |-> "headache", age |-> [t |-> "string", s |-> "0"]],
     [symptoms |-> "headache", age |-> [t |-> "number", n |-> MaxAge + 1]],
     [symptoms |-> "headache", age |-> [t |-> "string", s |-> "4.5"]],
     [symptoms |-> "headache", age |-> [t |-> "string", s |-> "eight"]],
     [symptoms |-> "headache",
      file |-> [base64 |-> SampleBase64, mimeType |-> "application/x-msdownload",
                fileName |-> "bad.exe", isImage |-> FALSE]],
     [symptoms |-> "headache",
      file |-> [base64 |-> SampleBase64, mimeType |-> "application/pdf", isImage |-> TRUE]],
     [symptoms |-> "headache",
      file |-> [base64 |-> "aGVsbG8gd29ybGQ*aGVsbG8=", mimeType |-> "image/png",
                isImage |-> TRUE]],
     [symptoms |-> "headache",
      file |-> [base64 |-> "aGVsbG8=", mimeType |-> "text/plain", isImage |-> FALSE]],
     [symptoms |-> "headache",
      file |-> [base64 |-> LargeBase64, mimeType |-> "image/webp", isImage |-> TRUE]],
     [symptoms |-> "can't breathe", language |-> "de", age |-> [t |-> "string", s |-> "40"],
      file |-> [base64 |-> LargeBase64, mimeType |-> "video/mp4", isImage |-> TRUE]],
     [symptoms |-> "headache",
      file |-> [base64 |-> SampleBase64, mimeType |-> "image/gif", fileName |-> "x.gif",
                isImage |-> TRUE]],
     [symptoms |-> "headache",
      file |-> [base64 |-> "aGVsbG8=", mimeType |-> " TEXT/HTML", isImage |-> FALSE]],
     [symptoms |-> "hi", language |-> "EN", readingLevel |-> "expert"],
     [symptoms |-> "headache", language |-> "", readingLevel |-> "Simple"]}
    \cup SeveralViolations

RequestBodies == ValidBodies \cup InvalidBodies

\* the messages of the errors a fetch rejects with
RejectMessages == {"fetch failed", ""}

SuccessText(name) ==
    IF name = "gemini" THEN "Gemini primary response"
    ELSE IF name = "groq" THEN "Groq fallback response"
    ELSE "Please seek emergency help immediately."

\* a success envelope of the provider carrying the text
SuccessBody(name, text) ==
    IF name = "gemini" THEN [json |-> "object", candidates |-> <<(<<text>>)>>]
    ELSE IF name = "groq" THEN [json |-> "object", choices |-> <<[t |-> "string", s |-> text]>>]
    ELSE [json |-> "object", content |-> <<[type |-> "text", text |-> text]>>]

ErrorBody(message) == [json |-> "object", error |-> [t |-> "object", message |-> message]]

\* a well-formed envelope of the provider that holds no text: a candidate
\* without parts, a content array of blank parts, a block that is not text
BlankBody(name) ==
    IF name = "gemini" THEN [json |-> "object", candidates |-> <<(<<>>)>>]
    ELSE IF name = "groq"
    THEN [json |-> "object", choices |-> <<[t |-> "array", parts |-> <<"", " ">>]>>]
    ELSE [json |-> "object", content |-> <<[type |-> "tool_use", text |-> "lookup"]>>]

\* an envelope of Anthropic whose content array holds null before its text
NullBlockBody ==
    [json |-> "object",
     content |-> <<NullBlock, [type |-> "text", text |-> SuccessText("anthropic")]>>]

\* the bodies a provider answers with, by the status of the response
UpstreamBodies(name, ok) ==
    IF ok
    THEN {SuccessBody(name, " " \o SuccessText(name) \o "\n"), SuccessBody(name, " \n "),
          BlankBody(name), MalformedBody}
         \cup (IF name = "anthropic" THEN {NullBlockBody} ELSE {})
    ELSE {ErrorBody(name \o " unavailable"), MalformedBody}

\* every order in which credentials can have been given
RECURSIVE Orderings(_)
Orderings(keys) ==
    IF keys = {} THEN {<<>>}
    ELSE UNION {{<<k>> \o rest : rest \in Orderings(keys \ {k})} : k \in keys}

CredentialOverrides == UNION {Orderings(keys) : keys \in SUBSET CredentialKeys}

config == createServerConfig(overrides, fetchIsFunction)

Init ==
    /\ overrides \in CredentialOverrides
    /\ fetchIsFunction \in BOOLEAN
    /\ req = [r \in Reqs |-> IdleReq]
    /\ symptomsIn = ""
    /\ languageIn = ""
    /\ triageOut = NoTriage
    /\ AgeIdle /\ LogIdle /\ UiIdle /\ LegacyIdle

\* a diagnose request arrives and the handler runs to its first await
ReceiveDiagnose(r) ==
    /\ req[r].pc = "idle"
    /\ \E body \in RequestBodies :
           req' = [req EXCEPT ![r] = HandleDiagnose(config, [IdleReq EXCEPT !.body = body], body)]
    /\ UNCHANGED <<overrides, fetchIsFunction, triageVars, ageVars, triageLog, ui, legacy>>

\* the fetch of the current attempt rejects: the adapter throws, the loop
\* records the failure and goes on
FetchRejects(r) ==
    /\ req[r].pc = "awaitFetch"
    /\ \E message \in RejectMessages :
           req' = [req EXCEPT ![r] =
                      AttemptFailed(config,
                          [req[r] EXCEPT !.replies = Append(@, [kind |-> "reject",
                                                                message |-> message])],
                          message)]
    /\ UNCHANGED <<overrides, fetchIsFunction, triageVars, ageVars, triageLog, ui, legacy>>

\* the fetch of the current attempt resolves with a response; the adapter
\* awaits its body
FetchResolves(r) ==
    /\ req[r].pc = "awaitFetch"
    /\ \E ok \in BOOLEAN :
           req' = [req EXCEPT ![r].pc = "awaitJson", ![r].responseOk = ok]
    /\ UNCHANGED <<overrides, fetchIsFunction, triageVars, ageVars, triageLog, ui, legacy>>

\* the body of the response is read: the adapter returns the text or throws
JsonSettles(r) ==
    /\ req[r].pc = "awaitJson"
    /\ \E body \in UpstreamBodies(PROVIDER_PRIORITY[req[r].attempt], req[r].responseOk) :
           LET st == [req[r] EXCEPT !.replies = Append(@, [kind |-> "response",
                                                          ok |-> req[r].responseOk,
                                                          body |-> body])]
               result == ProviderResult(PROVIDER_PRIORITY[st.attempt], st.responseOk,
                                        parseJsonSafe(body))
           IN  req' = [req EXCEPT ![r] =
                          IF result.ok
                          THEN AttemptSucceeded(config, st, result.text)
                          ELSE AttemptFailed(config, st, result.message)]
    /\ UNCHANGED <<overrides, fetchIsFunction, triageVars, ageVars, triageLog, ui, legacy>>

\* One request followed through the handler
Next ==
    \/ ReceiveDiagnose("r1")
    \/ FetchRejects("r1")
    \/ FetchResolves("r1")
    \/ JsonSettles("r1")

Spec == Init /\ [][Next]_vars

(***************************************************************************)
(* Properties of the fallback chain and of the handler                     *)
(***************************************************************************)

StartsWith(s, prefix) == Len(s) >= Len(prefix) /\ SubSeq(s, 1, Len(prefix)) = prefix

Contains(s, part) == \E i \in 1..(Len(s) - Len(part) + 1) : SubSeq(s, i, i + Len(part) - 1) = part

\* s cut at every occurrence of the separator
RECURSIVE SplitOn(_, _)
SplitOn(s, separator) ==
    LET at == {i \in 1..(Len(s) - Len(separator) + 1) :
                  SubSeq(s, i, i + Len(separator) - 1) = separator}
    IN  IF at = {} THEN <<s>>
        ELSE LET i == CHOOSE x \in at : \A y \in at : x <= y
             IN  <<SubSeq(s, 1, i - 1)>> \o SplitOn(SubSeq(s, i + Len(separator), Len(s)), separator)

CredentialGiven(key) == \E i \in 1..Len(overrides) : overrides[i] = key

\* the provider has a credential: its own key, or for anthropic the legacy apiKey
HasCredential(name) ==
    \/ name = "gemini" /\ CredentialGiven("geminiApiKey")
    \/ name = "groq" /\ CredentialGiven("groqApiKey")
    \/ name = "anthropic" /\ (CredentialGiven("anthropicApiKey") \/ CredentialGiven("apiKey"))

\* gemini, then groq, then anthropic, without the providers that have no credential
CredentialedInPriority == SelectSeq(<<"gemini", "groq", "anthropic">>, HasCredential)

Endpoint(name) ==
    IF name = "gemini" THEN "generativelanguage.googleapis.com"
    ELSE IF name = "groq" THEN "api.groq.com/openai/v1/chat/completions"
    ELSE "api.anthropic.com/v1/messages"

CalledProviders(r) == [k \in 1..Len(req[r].calls) |-> req[r].calls[k].provider]

\* the request got as far as requestWithFallback
ReachedFallback(r) ==
    req[r].pc \in {"awaitFetch", "awaitJson"} \/ req[r].res.status \in {200, 502}

\* the answer to a call of the provider is a success: a response with success
\* status whose body is the provider's envelope with text that is not blank
IsSuccess(name, reply) ==
    /\ reply.kind = "response"
    /\ reply.ok
    /\ reply.body = SuccessBody(name, " " \o SuccessText(name) \o "\n")

\* the k-th call of the request has been answered, and with a failure
CallFailed(r, k) ==
    /\ k <= Len(req[r].replies)
    /\ ~IsSuccess(req[r].calls[k].provider, req[r].replies[k])

\* C1: the calls of a request go to the providers that have a credential, in
\* the order gemini, groq, anthropic, whatever the order the credentials were
\* given in: the providers called are a prefix of that list, each call goes to
\* its provider's endpoint, and a request that reaches requestWithFallback
\* has made its first call.
C1_CallsFollowPriority ==
    \A r \in Reqs :
        LET called == CalledProviders(r)
        IN  /\ Len(called) <= Len(CredentialedInPriority)
            /\ called = SubSeq(CredentialedInPriority, 1, Len(called))
            /\ \A k \in 1..Len(called) : Contains(req[r].calls[k].url, Endpoint(called[k]))
            /\ ReachedFallback(r) => Len(called) >= 1

\* credentials given in the reverse of the priority order, all three called
C1_Witness ==
    /\ overrides = <<"anthropicApiKey", "groqApiKey", "geminiApiKey">>
    /\ CalledProviders("r1") = <<"gemini", "groq", "anthropic">>

\* C2: first success wins: a call is followed by another call only if it
\* failed; a success ends the request with status 200, that provider's name
\* and its text; when the first provider called succeeds, one call is made.
C2_FirstSuccessWins ==
    \A r \in Reqs :
        LET st == req[r]
            n == Len(st.calls)
        IN  /\ \A k \in 1..Len(st.replies) :
                   IF IsSuccess(st.calls[k].provider, st.replies[k])
                   THEN /\ k = n
                        /\ st.pc = "responded"
                        /\ st.res.status = 200
                        /\ st.res.provider = st.calls[k].provider
                        /\ st.res.result = SuccessText(st.calls[k].provider)
                   ELSE TRUE
            /\ st.res.status = 200 =>
                   Len(st.replies) = n /\ n >= 1 /\ IsSuccess(st.calls[n].provider, st.replies[n])

\* groq is the first provider with a credential and succeeds; anthropic has a
\* credential too and is not called
C2_Witness ==
    /\ ~HasCredential("gemini") /\ HasCredential("groq") /\ HasCredential("anthropic")
    /\ req["r1"].res.status = 200
    /\ req["r1"].res.provider = "groq"
    /\ CalledProviders("r1") = <<"groq">>

\* C3: when a call fails (the fetch rejects, the status is not a success, or
\* no text can be extracted) and a provider of lower priority has a
\* credential, that provider is called next; the failure is not in the
\* response of a request that succeeds later, and a 502 is sent only when
\* every provider with a credential failed. If gemini fails and groq then
\* succeeds, the response names groq, carries groq's text, and two calls
\* were made.
C3_FailureFallsBack ==
    \A r \in Reqs :
        LET st == req[r]
            called == CalledProviders(r)
        IN  /\ \A k \in 1..Len(st.replies) :
                   (CallFailed(r, k) /\ k < Len(CredentialedInPriority)) =>
                       /\ Len(called) >= k + 1
                       /\ called[k + 1] = CredentialedInPriority[k + 1]
            /\ st.res.status = 200 => "error" \notin DOMAIN st.res
            /\ st.res.status = 502 =>
                   /\ Len(st.replies) = Len(CredentialedInPriority)
                   /\ \A k \in 1..Len(st.replies) : CallFailed(r, k)
            /\ (/\ Len(st.replies) = 2
                /\ called[1] = "gemini" /\ CallFailed(r, 1)
                /\ called[2] = "groq" /\ ~CallFailed(r, 2)) =>
                   /\ st.res.status = 200
                   /\ st.res.provider = "groq"
                   /\ st.res.result = "Groq fallback response"
                   /\ Len(st.calls) = 2

\* gemini answers 200 with blank text, groq succeeds, anthropic is not called
C3_Witness ==
    /\ Len(CredentialedInPriority) = 3
    /\ Len(req["r1"].replies) = 2
    /\ req["r1"].replies[1] = [kind |-> "response", ok |-> TRUE,
                               body |-> SuccessBody("gemini", " \n ")]
    /\ req["r1"].res.status = 200
    /\ req["r1"].res.provider = "groq"
    /\ CalledProviders("r1") = <<"gemini", "groq">>

AggregatePrefix == "All providers failed. "

\* the "<provider>: <message>" entries of an aggregate error message
AggregateEntries(message) ==
    SplitOn(SubSeq(message, Len(AggregatePrefix) + 1, Len(message)), " | ")

\* every provider with a credential was called and failed
AllFailed(r) ==
    /\ Len(CredentialedInPriority) >= 1
    /\ Len(req[r].replies) = Len(CredentialedInPriority)
    /\ \A k \in 1..Len(req[r].replies) : CallFailed(r, k)

\* C4: when every provider that has a credential failed, the request ends
\* with status 502 and one message that holds one "<provider>: <message>"
\* entry per call, in the order of the calls, none for a provider without a
\* credential; the entry carries the message of the transport error or of the
\* upstream error body where there is one.
C4_AggregateListsEveryAttempt ==
    \A r \in Reqs :
        AllFailed(r) =>
            LET st == req[r]
                entries == AggregateEntries(st.res.error)
            IN  /\ st.pc = "responded"
                /\ st.res.status = 502
                /\ StartsWith(st.res.error, AggregatePrefix)
                /\ Len(entries) = Len(st.calls)
                /\ \A k \in 1..Len(entries) :
                       LET name == st.calls[k].provider
                           reply == st.replies[k]
                       IN  /\ StartsWith(entries[k], name \o ": ")
                           /\ Len(entries[k]) > Len(name \o ": ")
                           /\ HasCredential(name)
                           /\ (reply.kind = "reject" /\ reply.message # "") =>
                                  entries[k] = name \o ": " \o reply.message
                           /\ (reply.kind = "response" /\ ~reply.ok
                               /\ reply.body = ErrorBody(name \o " unavailable")) =>
                                  entries[k] = name \o ": " \o name \o " unavailable"

\* gemini and anthropic have credentials, groq has none; gemini's fetch
\* rejects and anthropic answers with an error status
C4_Witness ==
    /\ CredentialedInPriority = <<"gemini", "anthropic">>
    /\ AllFailed("r1")
    /\ req["r1"].res.status = 502
    /\ req["r1"].res.error =
           "All providers failed. gemini: fetch failed | anthropic: anthropic unavailable"

\* C5: with no provider credential configured, every diagnose request, with
\* a valid or an invalid payload, ends with status 500 and the configuration
\* error, and no call is made.
C5_NoCredentialsIsConfigurationError ==
    \A r \in Reqs :
        (overrides = <<>> /\ req[r].pc # "idle") =>
            /\ req[r].pc = "responded"
            /\ req[r].res.status = 500
            /\ Contains(req[r].res.error, "missing provider keys")
            /\ req[r].calls = <<>>

C5_Witness ==
    /\ overrides = <<>>
    /\ fetchIsFunction
    /\ req["r1"].body \in InvalidBodies
    /\ req["r1"].res.status = 500

\* C6 as stated: for every invalid payload and every provider configuration
\* the request makes no call and is answered with status 400.
C6_InvalidPayloadIs400 ==
    \A r \in Reqs :
        req[r].body \in InvalidBodies =>
            /\ req[r].calls = <<>>
            /\ req[r].res.status = 400

\* C6 amended: an invalid payload never leads to a call, in any
\* configuration; it is answered with status 400 whenever at least one
\* provider credential and the fetch function are configured.
C6_InvalidPayloadMakesNoCall ==
    \A r \in Reqs :
        req[r].body \in InvalidBodies =>
            /\ req[r].calls = <<>>
            /\ req[r].pc = "responded"
            /\ (overrides # <<>> /\ fetchIsFunction) => req[r].res.status = 400

\* the upload of the unsupported type with a gemini credential configured
C6_Witness ==
    /\ overrides = <<"geminiApiKey">>
    /\ fetchIsFunction
    /\ "file" \in DOMAIN req["r1"].body
    /\ req["r1"].body.file.mimeType = "application/x-msdownload"
    /\ req["r1"].res = [status |-> 400,
                        error |-> "Unsupported upload type. Use JPEG, PNG, WEBP, PDF, or TXT."]
    /\ req["r1"].calls = <<>>

\* the answer to the k-th call of the request st is in, and is a failure
FailedIn(st, k) ==
    /\ k <= Len(st.replies)
    /\ ~IsSuccess(st.calls[k].provider, st.replies[k])

\* the calls of the request st that have not been answered yet
InFlight(st) == Len(st.calls) - Len(st.replies)

\* C11: no retries within a provider: in one request no provider is called
\* twice, so the request makes at most as many calls as there are providers
\* with a credential, three at most, whatever way the calls fail.
C11_NoRetryWithinProvider ==
    \A r \in Reqs :
        LET called == CalledProviders(r)
        IN  /\ \A i, j \in 1..Len(called) : called[i] = called[j] => i = j
            /\ Len(called) <= Len(CredentialedInPriority)
            /\ Len(called) <= 3
            /\ \A k \in 1..Len(called) : HasCredential(called[k])

\* three providers, three calls, each failing in another way: a rejected
\* fetch, an error status, a response without text
C11_Witness ==
    /\ Len(req["r1"].calls) = 3
    /\ req["r1"].res.status = 502
    /\ req["r1"].replies[1].kind = "reject"
    /\ req["r1"].replies[2] = [kind |-> "response", ok |-> FALSE, body |-> MalformedBody]
    /\ req["r1"].replies[3] = [kind |-> "response", ok |-> TRUE, body |-> BlankBody("anthropic")]

\* C12: the attempts of a request are sequential: at most one call of the
\* request is unanswered at any time, one exactly while the handler awaits,
\* and a step that issues a call issues one call, after every earlier call of
\* the request has been answered with a failure.
C12_AttemptsAreSequential ==
    [][\A r \in Reqs :
           LET before == req[r]
               after == req'[r]
           IN  /\ InFlight(after) \in {0, 1}
               /\ InFlight(after) = 1 <=> after.pc \in {"awaitFetch", "awaitJson"}
               /\ after.calls # before.calls =>
                      /\ Len(after.calls) = Len(before.calls) + 1
                      /\ SubSeq(after.calls, 1, Len(before.calls)) = before.calls
                      /\ Len(after.replies) = Len(before.calls)
                      /\ \A k \in 1..Len(before.calls) : FailedIn(after, k)]_vars

\* the call to groq is awaiting its body; the call to gemini was rejected
C12_Witness ==
    /\ CalledProviders("r1") = <<"gemini", "groq">>
    /\ req["r1"].pc = "awaitJson"
    /\ Len(req["r1"].replies) = 1
    /\ req["r1"].replies[1] = [kind |-> "reject", message |-> "fetch failed"]

\* a provider credential and the fetch function are configured
Configured == CredentialedInPriority # <<>> /\ fetchIsFunction

\* C13: a request that has been answered ended in exactly one of four ways,
\* decided in this order: 500 when no provider has a credential or there is no
\* fetch function; else 400 when the payload is invalid; else 200 when a
\* provider succeeded; else 502, and then every provider with a credential
\* was called and failed. A 200 carries a result and no error; every other
\* answer carries an error and no result. Calls are made only by a configured
\* server for a valid payload.
C13_OneOfFourOutcomes ==
    \A r \in Reqs :
        LET st == req[r]
            n == Len(st.calls)
            status == st.res.status
        IN  /\ st.pc = "responded" =>
                /\ status \in {500, 400, 200, 502}
                /\ status = 500 <=> ~Configured
                /\ status = 400 <=> (Configured /\ st.body \in InvalidBodies)
                /\ status = 200 <=> (/\ Configured
                                     /\ st.body \in ValidBodies
                                     /\ n >= 1
                                     /\ Len(st.replies) = n
                                     /\ IsSuccess(st.calls[n].provider, st.replies[n]))
                /\ status = 502 <=> (Configured /\ st.body \in ValidBodies /\ AllFailed(r))
                /\ (status = 500 /\ CredentialedInPriority = <<>>) =>
                       Contains(st.res.error, "missing provider keys")
                /\ (status = 500 /\ CredentialedInPriority # <<>>) =>
                       st.res.error = "Server fetch client is not configured."
                /\ status \in {500, 400} => n = 0
                /\ IF status = 200
                   THEN /\ DOMAIN st.res = {"status", "result", "provider", "triage", "handoff"}
                        /\ st.res.result # ""
                   ELSE /\ DOMAIN st.res = {"status", "error"}
                        /\ st.res.error # ""
            /\ st.pc \in {"awaitFetch", "awaitJson"} =>
                   (Configured /\ st.body \in ValidBodies)

\* a credential but no fetch function, and a payload that is invalid: the
\* configuration failure is decided first
C13_Witness ==
    /\ overrides = <<"groqApiKey">>
    /\ ~fetchIsFunction
    /\ req["r1"].body \in InvalidBodies
    /\ req["r1"].res = [status |-> 500, error |-> "Server fetch client is not configured."]

\* the name a provider's adapter uses for it in its messages
ProviderLabel(name) ==
    IF name = "gemini" THEN "Gemini" ELSE IF name = "groq" THEN "Groq" ELSE "Anthropic"

EmptyResponseEntry(name) == name \o ": " \o ProviderLabel(name) \o " returned an empty response."

RequestFailedEntry(name) == name \o ": " \o ProviderLabel(name) \o " request failed."

\* a response with success status whose envelope holds no text or blank text
IsEmptyTextReply(name, reply) ==
    /\ reply.kind = "response"
    /\ reply.ok
    /\ reply.body \in {SuccessBody(name, " \n "), BlankBody(name)}

\* the k-th call of the request failed and the loop went on: the failure is
\* recorded as the entry, and the next provider with a credential has been
\* called, or there is none and the request ended with the aggregate error
RecordedAndContinued(st, k, entry) ==
    /\ Len(st.errors) >= k
    /\ st.errors[k] = entry
    /\ IF k < Len(CredentialedInPriority)
       THEN /\ Len(st.calls) >= k + 1
            /\ st.calls[k + 1].provider = CredentialedInPriority[k + 1]
       ELSE /\ st.pc = "responded"
            /\ st.res.status = 502
            /\ AggregateEntries(st.res.error)[k] = entry

\* C14: a response with success status whose text is empty or blank is a
\* failure of that provider with its "returned an empty response" message,
\* never a success: it is recorded, the next provider with a credential is
\* tried, and the provider is not the one a 200 names; the result of a 200 is
\* never empty or blank.
C14_EmptyTextIsFailure ==
    \A r \in Reqs :
        LET st == req[r]
        IN  /\ \A k \in 1..Len(st.replies) :
                   IsEmptyTextReply(st.calls[k].provider, st.replies[k]) =>
                       /\ RecordedAndContinued(st, k, EmptyResponseEntry(st.calls[k].provider))
                       /\ st.res.status = 200 => st.res.provider # st.calls[k].provider
            /\ st.res.status = 200 => (st.res.result # "" /\ Trim(st.res.result) # "")

\* groq answers 200 with a content array of blank parts; anthropic is called
C14_Witness ==
    /\ CalledProviders("r1") = <<"groq", "anthropic">>
    /\ req["r1"].replies = <<[kind |-> "response", ok |-> TRUE, body |-> BlankBody("groq")]>>
    /\ req["r1"].errors = <<"groq: Groq returned an empty response.">>
    /\ req["r1"].pc = "awaitFetch"

\* C15: a body that is not JSON does not make the adapter raise: it is read
\* as an empty object, so with success status the attempt fails with the
\* provider's empty-response message and with another status with its
\* request-failed message; either way the failure is recorded and the next
\* provider with a credential is tried.
C15_MalformedBodyIsTolerated ==
    \A r \in Reqs :
        LET st == req[r]
        IN  \A k \in 1..Len(st.replies) :
                (st.replies[k].kind = "response" /\ st.replies[k].body = MalformedBody) =>
                    RecordedAndContinued(st, k,
                        IF st.replies[k].ok
                        THEN EmptyResponseEntry(st.calls[k].provider)
                        ELSE RequestFailedEntry(st.calls[k].provider))

\* gemini answers 200 and groq an error status, both with a body that is not
\* JSON; anthropic is called and succeeds
C15_Witness ==
    /\ CalledProviders("r1") = <<"gemini", "groq", "anthropic">>
    /\ req["r1"].replies[1] = [kind |-> "response", ok |-> TRUE, body |-> MalformedBody]
    /\ req["r1"].replies[2] = [kind |-> "response", ok |-> FALSE, body |-> MalformedBody]
    /\ req["r1"].errors = <<"gemini: Gemini returned an empty response.",
                            "groq: Groq request failed.">>
    /\ req["r1"].res.status = 200
    /\ req["r1"].res.provider = "anthropic"

\* the request body carries an attachment
HasAttachment(body) == "file" \in DOMAIN body /\ body.file # NullFile

\* C16: a call to a provider carries an inlined base64 block exactly when the
\* request has an attachment whose isImage flag is true, and the block then
\* holds the attachment's base64; for an attachment that is not an image no
\* call of the request, to whichever provider, holds its base64 anywhere (all
\* calls carry the one system prompt and user text of the request), and the
\* user text notes that a non-image file was uploaded.
C16_ImageBlockOnlyForImages ==
    \A r \in Reqs :
        LET st == req[r]
            isImage == HasAttachment(st.body) /\ st.body.file.isImage
        IN  st.calls # <<>> =>
                /\ \A k \in 1..Len(st.calls) :
                       /\ st.calls[k].image # NoImage <=> isImage
                       /\ isImage => st.calls[k].image.data = st.body.file.base64
                       /\ st.calls[k].text = st.userText
                       /\ st.calls[k].system = st.systemPrompt
                /\ isImage => Contains(st.userText, "I uploaded a lab image.")
                /\ (HasAttachment(st.body) /\ ~st.body.file.isImage) =>
                       /\ ~Contains(st.userText, st.body.file.base64)
                       /\ ~Contains(st.systemPrompt, st.body.file.base64)
                       /\ Contains(st.userText, "I uploaded a non-image file.")
                /\ ~HasAttachment(st.body) => ~Contains(st.userText, "I uploaded")

\* a PNG that is not flagged as an image: all three providers were called,
\* none with an image block
C16_Witness ==
    /\ CalledProviders("r1") = <<"gemini", "groq", "anthropic">>
    /\ req["r1"].body.symptoms = "sore throat"
    /\ req["r1"].body.file = ScanFile
    /\ \A k \in 1..3 : req["r1"].calls[k].image = NoImage

\* the language name and the reading-level wording a request asks for; an
\* omitted field and a value that is not recognised mean English and the
\* simple wording
ExpectedLanguageName(body) ==
    IF "language" \notin DOMAIN body THEN "English"
    ELSE IF body.language = "es" THEN "Spanish"
    ELSE IF body.language = "fr" THEN "French"
    ELSE "English"

ExpectedReadingWording(body) ==
    IF "readingLevel" \notin DOMAIN body
    THEN "Use simple child-friendly language with clear examples."
    ELSE IF body.readingLevel = "very_simple"
    THEN "Use very short sentences and very simple words for younger children."
    ELSE IF body.readingLevel = "detailed"
    THEN "Use child-friendly language with slightly more detail for older children."
    ELSE "Use simple child-friendly language with clear examples."

\* the request names a language or a reading level that is not recognised
NamesUnrecognised(body) ==
    \/ "language" \in DOMAIN body /\ body.language \notin {"en", "es", "fr"}
    \/ "readingLevel" \in DOMAIN body
       /\ body.readingLevel \notin {"very_simple", "simple", "detailed"}

\* C17: every call of a request, to whichever provider, carries the one
\* system prompt of the request, and that prompt holds the rule "Respond in
\* <language name>." for the language of the request and the reading-level
\* rule for its reading level, English and the simple wording when the field
\* is omitted. A request that names a language or level that is not
\* recognised leads to no call, so the fallback inside buildSystemPrompt is
\* not what a provider ever receives.
C17_PromptCarriesLanguageAndLevel ==
    \A r \in Reqs :
        LET st == req[r]
        IN  /\ st.calls # <<>> =>
                /\ \A k \in 1..Len(st.calls) : st.calls[k].system = st.systemPrompt
                /\ Contains(st.systemPrompt,
                            "- Respond in " \o ExpectedLanguageName(st.body) \o ".\n")
                /\ Contains(st.systemPrompt, "- " \o ExpectedReadingWording(st.body) \o "\n")
            /\ (st.body # NoBody /\ NamesUnrecognised(st.body)) => st.calls = <<>>

\* the Spanish request in very simple words, answered by anthropic, the only
\* provider with a credential
C17_Witness ==
    /\ overrides = <<"anthropicApiKey">>
    /\ req["r1"].body = [symptoms |-> "My child can't breathe and has chest pain",
                         language |-> "es", readingLevel |-> "very_simple"]
    /\ req["r1"].res.status = 200
    /\ req["r1"].res.provider = "anthropic"
    /\ Contains(req["r1"].calls[1].system, "- Respond in Spanish.\n")
    /\ Contains(req["r1"].calls[1].system, "- Use very short sentences")

EmergencyRule == "Start with a direct warning to seek emergency care immediately."

SofterRule == "If symptoms may need urgent care, clearly say so."

\* C18: the system prompt of a request holds the emergency rule exactly when
\* the triage level computed for the request is emergency, and the softer
\* conditional rule exactly when it is caution or routine: one of the two,
\* never both. Stated of every step: the step that builds the prompt builds
\* it so, every call carries that prompt, and once a call has been made the
\* prompt and the triage result stay as they are; the level is the one the
\* response reports.
C18_EmergencyRuleIffEmergency ==
    [][\A r \in Reqs :
           LET before == req[r]
               after == req'[r]
           IN  /\ after.systemPrompt # before.systemPrompt =>
                      /\ after.triage.level \in {"emergency", "caution", "routine"}
                      /\ Contains(after.systemPrompt, EmergencyRule)
                             <=> after.triage.level = "emergency"
                      /\ Contains(after.systemPrompt, SofterRule)
                             <=> after.triage.level # "emergency"
               /\ after.calls # <<>> =>
                      /\ after.systemPrompt # ""
                      /\ \A k \in 1..Len(after.calls) :
                             after.calls[k].system = after.systemPrompt
               /\ before.calls # <<>> =>
                      /\ after.systemPrompt = before.systemPrompt
                      /\ after.triage = before.triage
               /\ after.res.status = 200 => after.res.triage = after.triage]_vars

\* the request about breathing and chest pain is classified emergency and
\* gemini is sent the emergency rule
C18_Witness ==
    /\ req["r1"].triage.level = "emergency"
    /\ CalledProviders("r1") = <<"gemini">>
    /\ req["r1"].pc = "awaitFetch"
    /\ Contains(req["r1"].calls[1].system, "- - " \o EmergencyRule \o "\n")
    /\ ~Contains(req["r1"].calls[1].system, SofterRule)

\* the upload types of the allow-list, as the specification lists them
AllowListedTypes == {"image/jpeg", "image/png", "image/webp", "application/pdf", "text/plain"}

\* C19 as stated: a request with an attachment whose mimeType is not one of
\* the allow-list is answered with status 400 and makes no call (on a server
\* with a credential and the fetch function).
C19_UnlistedMimeTypeIs400 ==
    \A r \in Reqs :
        (/\ Configured
         /\ req[r].pc # "idle"
         /\ HasAttachment(req[r].body)
         /\ req[r].body.file.mimeType \notin AllowListedTypes) =>
            /\ req[r].pc = "responded"
            /\ req[r].res.status = 400
            /\ req[r].calls = <<>>

\* C19 amended: the mimeType is compared after trimming the white space
\* around it and without regard to letter case. A request with an attachment
\* whose mimeType, so read, is not one of the allow-list is answered with
\* status 400 and makes no call, whatever the other fields of the attachment
\* and of the request (on a server with a credential and the fetch function).
C19_UnsupportedTypeIs400 ==
    \A r \in Reqs :
        (/\ Configured
         /\ req[r].pc # "idle"
         /\ HasAttachment(req[r].body)
         /\ ToLowerCase(Trim(req[r].body.file.mimeType)) \notin AllowListedTypes) =>
            /\ req[r].pc = "responded"
            /\ req[r].res.status = 400
            /\ req[r].calls = <<>>

\* a GIF flagged as an image, all three providers with a credential
C19_Witness ==
    /\ Len(CredentialedInPriority) = 3
    /\ fetchIsFunction
    /\ HasAttachment(req["r1"].body)
    /\ req["r1"].body.file.mimeType = "image/gif"
    /\ req["r1"].res = [status |-> 400,
                        error |-> "Unsupported upload type. Use JPEG, PNG, WEBP, PDF, or TXT."]
    /\ req["r1"].calls = <<>>

\* no field that the schema checks before language and readingLevel is
\* invalid: the symptoms and the name are within their lengths, the age is a
\* string or a number
EarlierFieldsValid(body) ==
    /\ "symptoms" \in DOMAIN body
    /\ Len(Trim(body.symptoms)) >= 3
    /\ Len(Trim(body.symptoms)) <= 1500
    /\ "name" \in DOMAIN body => Len(Trim(body.name)) <= 50
    /\ "age" \in DOMAIN body => body.age.t \in {"string", "number"}

LanguageEnumViolation(received) ==
    "Invalid enum value. Expected 'en' | 'es' | 'fr', received '" \o received \o "'"

ReadingLevelEnumViolation(received) ==
    "Invalid enum value. Expected 'very_simple' | 'simple' | 'detailed', received '"
        \o received \o "'"

C22_ImageBlocksCarryImageTypes ==
    \A r \in Reqs :
        LET st == req[r]
        IN  /\ (st.payload # NoBody /\ st.payload.file # NullFile /\ st.payload.file.isImage)
                   => st.payload.file.mimeType \in IMAGE_MIME_TYPES
            /\ \A k \in 1..Len(st.calls) :
                   st.calls[k].image # NoImage
                       => st.calls[k].image.mediaType \in IMAGE_MIME_TYPES

\* the validated attachment keeps the type as the client wrote it, and so does
\* the block of each call
C22_Witness ==
    /\ req["r1"].body = [symptoms |-> "earache", name |-> "Leo", file |-> PhotoFile]
    /\ CalledProviders("r1") = <<"gemini", "groq", "anthropic">>
    /\ req["r1"].payload.file.mimeType = "Image/PNG"
    /\ \A k \in 1..3 : req["r1"].calls[k].image.mediaType = "Image/PNG"

\* the request got a reply whose handling raised a runtime error that is no
\* reported failure of a provider
RaisedUnexpected(st) ==
    \E k \in 1..Len(st.replies) :
        st.replies[k].kind = "response" /\ st.replies[k].body = NullBlockBody

GenericFailure == "Could not reach AI provider. Please try again."

\* C23: an exception raised while a response is worked on never escapes the
\* handler: the request ends with one failure response, and the message of
\* that response is generic and does not carry the exception's own message.
C23_UnexpectedExceptionIsGeneric ==
    \A r \in Reqs :
        (req[r].pc = "responded" /\ RaisedUnexpected(req[r])) =>
            /\ req[r].res.status = 502
            /\ ~Contains(req[r].res.error, NullBlockError)

\* Anthropic alone answers 200 with a null block: the 502 carries the
\* TypeError's message
C23_Witness ==
    /\ overrides = <<"anthropicApiKey">>
    /\ req["r1"].pc = "responded"
    /\ RaisedUnexpected(req["r1"])
    /\ req["r1"].res = [status |-> 502,
                        error |-> "All providers failed. anthropic: " \o NullBlockError]

\* the name and the age a request body gives, trimmed; "" when it gives none
GivenName(body) == IF "name" \in DOMAIN body THEN Trim(body.name) ELSE ""

GivenAge(body) ==
    IF "age" \notin DOMAIN body THEN ""
    ELSE IF body.age.t = "string" THEN Trim(body.age.s)
    ELSE NumberToString(body.age.n)

\* C26: a 200 response carries as result the text of the provider that
\* succeeded, as provider that provider's name, as triage the classification of
\* the request's symptoms, and a handoff with the validated symptoms, language
\* and readingLevel, with the given name or "little friend" when the name is
\* empty, and with "<age> years old" or "a young child" when the age is empty.
C26_SuccessResponseShape ==
    \A r \in Reqs :
        LET st == req[r]
            body == st.body
            last == Len(st.calls)
            symptoms == Trim(body.symptoms)
            language == IF "language" \in DOMAIN body THEN body.language ELSE "en"
        IN  (st.pc = "responded" /\ st.res.status = 200) =>
                /\ Len(st.replies) = last
                /\ st.replies[last] = [kind |-> "response", ok |-> TRUE,
                                       body |-> SuccessBody(st.calls[last].provider,
                                                            " " \o st.res.result \o "\n")]
                /\ st.res.result = SuccessText(st.calls[last].provider)
                /\ st.res.provider = st.calls[last].provider
                /\ st.res.triage = detectTriage(symptoms, language)
                /\ st.res.handoff.symptoms = symptoms
                /\ st.res.handoff.language = language
                /\ st.res.handoff.language \in {"en", "es", "fr"}
                /\ st.res.handoff.readingLevel
                       = (IF "readingLevel" \in DOMAIN body THEN body.readingLevel ELSE "simple")
                /\ st.res.handoff.readingLevel \in {"very_simple", "simple", "detailed"}
                /\ st.res.handoff.childName
                       = (IF GivenName(body) = "" THEN "little friend" ELSE GivenName(body))
                /\ st.res.handoff.childAge
                       = (IF GivenAge(body) = "" THEN "a young child"
                          ELSE GivenAge(body) \o " years old")
                /\ DOMAIN st.res = {"status", "result", "provider", "triage", "handoff"}

\* a padded name and age answered by Groq after Gemini failed
C26_Witness ==
    /\ req["r1"].pc = "responded"
    /\ req["r1"].res.status = 200
    /\ req["r1"].body.symptoms = "  itchy seizures "
    /\ req["r1"].res.provider = "groq"
    /\ req["r1"].res.result = "Groq fallback response"
    /\ req["r1"].res.triage.level = "routine"
    /\ req["r1"].res.handoff = [childName |-> "Mia", childAge |-> "8 years old",
                                symptoms |-> "itchy seizures", language |-> "en",
                                readingLevel |-> "simple"]

\* the place of a validation message in the validation order: the fields in
\* schema order, then the refinements of the attachment in the order content
\* charset, allow-list, image type, size, then the age range
ViolationRank(message) ==
    IF message \in {"Required", "Please provide symptoms.", "Symptoms are too long."} THEN 1
    ELSE IF message = "Name is too long." THEN 2
    ELSE IF message = "Invalid input" THEN 3
    ELSE IF StartsWith(message, "Invalid enum value. Expected 'en'") THEN 4
    ELSE IF StartsWith(message, "Invalid enum value. Expected 'very_simple'") THEN 5
    ELSE IF message \in {"Invalid file content.", "File payload is too large."}
            \/ StartsWith(message, "String must contain") THEN 6
    ELSE IF message = "Uploaded file content is invalid." THEN 7
    ELSE IF StartsWith(message, "Unsupported upload type.") THEN 8
    ELSE IF StartsWith(message, "Image uploads must be") THEN 9
    ELSE IF StartsWith(message, "File is too large.") THEN 10
    ELSE IF message = "Age must be a whole number from 1 to 18." THEN 11
    ELSE 0

\* C27: when a payload violates several constraints at once, the 400 carries
\* exactly one message, the message of the first violation in validation
\* order: field constraints in schema order come before the refinements of the
\* attachment, and these in the order content charset, allow-list, image type,
\* size (the age range, a refinement of the whole object, comes last).
C27_FirstViolationIsReported ==
    \A r \in Reqs :
        LET st == req[r]
            issues == SchemaIssues(st.body, config.maxFileBytes)
        IN  (st.pc = "responded" /\ st.res.status = 400) =>
                /\ DOMAIN st.res = {"status", "error"}
                /\ issues # <<>>
                /\ \E i \in 1..Len(issues) : issues[i] = st.res.error
                /\ ViolationRank(st.res.error) > 0
                /\ \A i \in 1..Len(issues) :
                       /\ ViolationRank(issues[i]) >= ViolationRank(st.res.error)
                       /\ issues[i] # st.res.error => ~Contains(st.res.error, issues[i])
                /\ st.calls = <<>>

\* an attachment that fails all four refinements, with an age out of range:
\* the message is the one of the content charset
C27_Witness ==
    /\ req["r1"].pc = "responded"
    /\ req["r1"].body = [symptoms |-> "headache", age |-> [t |-> "string", s |-> "40"],
                         file |-> [base64 |-> BrokenLargeBase64, mimeType |-> "video/mp4",
                                   isImage |-> TRUE]]
    /\ Len(SchemaIssues(req["r1"].body, config.maxFileBytes)) = 5
    /\ req["r1"].res = [status |-> 400, error |-> "Uploaded file content is invalid."]

(***************************************************************************)
(* The classifier called on its own: detectTriage(symptoms, language)      *)
(***************************************************************************)

\* String.prototype.toUpperCase / toLowerCase on ASCII text
RECURSIVE ToUpperCase(_)
ToUpperCase(s) ==
    IF s = "" THEN ""
    ELSE UpperChar(Char(s, 1)) \o ToUpperCase(SubSeq(s, 2, Len(s)))

\* Every second letter in upper case: "cHeSt pAiN"
RECURSIVE AlternateCase(_, _)
AlternateCase(s, up) ==
    IF s = "" THEN ""
    ELSE (IF up THEN UpperChar(Char(s, 1)) ELSE Char(s, 1))
         \o AlternateCase(SubSeq(s, 2, Len(s)), ~up)

CaseModes == {"asis", "upper", "alternate"}

WithCase(s, mode) ==
    IF mode = "upper" THEN ToUpperCase(s)
    ELSE IF mode = "alternate" THEN AlternateCase(s, FALSE)
    ELSE s

\* A run of n digits, as a parent would type a number of days
RECURSIVE DigitRun(_)
DigitRun(n) == IF n = 0 THEN "" ELSE Char(DIGITS, ((n * 3) % 10) + 1) \o DigitRun(n - 1)

MaxDigits == 2

\* What the urgent rules are written to catch, one sample per alternative
UrgentPhrases ==
    {"can't breathe", "cant breathe", "cannot breathe", "trouble breathing",
     "struggling to breathe", "chest pain", "severe chest pain", "unconscious",
     "passed out", "not waking up", "seizure", "convulsion", "blue lips",
     "blue face", "thoughts of self harm", "suicidal", "want to die"}

WatchPhrases ==
    {"high fever", "fever over", "vomiting", "diarrhea", "rash", "ear pain",
     "sore throat", "headache", "dizzy", "fatigue", "stomach pain", "tummy hurts"}
    \cup {"fever for " \o DigitRun(n) \o " days" : n \in 1..MaxDigits}

NeutralPhrases == {"a cough", "fever for days", "itchy", "can t breathe"}

TextPrefixes == {"", "He has ", "x"}
TextSuffixes == {"", " now!", "s"}
TextTails == {"", " and rash", " plus a Seizure", " with vomiting and blue lips"}

SymptomTexts ==
    {pre \o WithCase(core, mode) \o suf \o tail :
        pre \in TextPrefixes,
        core \in UrgentPhrases \cup WatchPhrases \cup NeutralPhrases,
        mode \in CaseModes,
        suf \in TextSuffixes,
        tail \in TextTails}

\* en, es, fr, and a code the copy table does not have
TriageLanguages == {"en", "es", "fr", "de"}

TriageInit ==
    /\ symptomsIn \in SymptomTexts
    /\ languageIn = ""
    /\ triageOut = NoTriage
    /\ overrides = <<>>
    /\ fetchIsFunction = TRUE
    /\ req = [r \in Reqs |-> IdleReq]
    /\ AgeIdle /\ LogIdle /\ UiIdle /\ LegacyIdle

CallDetectTriage ==
    /\ triageOut = NoTriage
    /\ \E language \in TriageLanguages :
           /\ languageIn' = language
           /\ triageOut' = detectTriage(symptomsIn, language)
    /\ UNCHANGED <<symptomsIn, overrides, fetchIsFunction, req, ageVars, triageLog, ui, legacy>>

TriageNext == CallDetectTriage

TriageSpec == TriageInit /\ [][TriageNext]_vars

(***************************************************************************)
(* Properties of the classifier                                            *)
(***************************************************************************)

Classified == triageOut # NoTriage

\* T holds P at position i
OccursAt(T, P, i) == SubSeq(T, i, i + Len(P) - 1) = P

\* text contains one of the phrases as a substring, letter case ignored
ContainsPhrase(text, phrases) ==
    LET T == ToUpperCase(text)
    IN  \E p \in phrases :
            LET P == ToUpperCase(p)
            IN  \E i \in 1..(Len(T) - Len(P) + 1) : OccursAt(T, P, i)

\* text contains one of the phrases as whole words: the occurrence is neither
\* preceded nor followed directly by a letter, a digit or an underscore
ContainsWholePhrase(text, phrases) ==
    LET T == ToUpperCase(text)
    IN  \E p \in phrases :
            LET P == ToUpperCase(p)
            IN  \E i \in 1..(Len(T) - Len(P) + 1) :
                    /\ OccursAt(T, P, i)
                    /\ (i = 1 \/ Char(T, i - 1) \notin WordChars)
                    /\ (i + Len(P) - 1 = Len(T) \/ Char(T, i + Len(P)) \notin WordChars)

MatchedRules(patterns, text) ==
    {k \in 1..Len(patterns) : RegexTest(patterns[k].regex, text)}

ReasonsOf(patterns) == {patterns[k].reason : k \in 1..Len(patterns)}

\* reasons lists exactly the reasons of the matched rules of the table, in
\* the table's order
ListsMatchedOf(reasons, patterns, text) ==
    LET matched == MatchedRules(patterns, text)
    IN  /\ Len(reasons) = Cardinality(matched)
        /\ \A k \in matched : \E j \in 1..Len(reasons) : reasons[j] = patterns[k].reason
        /\ \A j \in 1..Len(reasons) : \E k \in matched : reasons[j] = patterns[k].reason
        /\ \A j1, j2 \in 1..Len(reasons) :
               j1 < j2 =>
                   \E k1, k2 \in matched :
                       /\ k1 < k2
                       /\ reasons[j1] = patterns[k1].reason
                       /\ reasons[j2] = patterns[k2].reason

\* C7 as stated: every symptom text that contains an urgent phrase, in any
\* letter case and with anything around it, is classified emergency with a
\* non-empty reasons list.
C7_AnyOccurrenceIsEmergency ==
    (Classified /\ ContainsPhrase(symptomsIn, UrgentPhrases))
        => (triageOut.level = "emergency" /\ triageOut.reasons # <<>>)

\* C7 amended: every symptom text that contains an urgent phrase as whole
\* words (the occurrence not directly preceded or followed by a letter, digit
\* or underscore) is classified emergency with a non-empty reasons list, in
\* any letter case, for any language and whatever else the text contains.
C7_WholePhraseIsEmergency ==
    (Classified /\ ContainsWholePhrase(symptomsIn, UrgentPhrases))
        => (triageOut.level = "emergency" /\ triageOut.reasons # <<>>)

\* an urgent phrase in capitals, other text around it, a watch phrase after
\* it, a language without a copy table: classified emergency
C7_Witness ==
    /\ Classified
    /\ languageIn \notin DOMAIN TRIAGE_COPY
    /\ symptomsIn = "He has CHEST PAIN now! and rash"
    /\ triageOut.level = "emergency"

\* C8: a symptom text that matches at least one watch pattern and no urgent
\* pattern is classified caution with a non-empty reasons list.
C8_WatchOnlyIsCaution ==
    (/\ Classified
     /\ MatchedRules(WATCH_TRIAGE_PATTERNS, symptomsIn) # {}
     /\ MatchedRules(URGENT_TRIAGE_PATTERNS, symptomsIn) = {})
        => (triageOut.level = "caution" /\ triageOut.reasons # <<>>)

\* a text with one watch phrase and an urgent phrase that is no whole word
C8_Witness ==
    /\ Classified
    /\ symptomsIn = "xseizure now! and rash"
    /\ triageOut.level = "caution"
    /\ triageOut.reasons = <<"Symptoms may need a doctor check">>

\* C9: a symptom text that matches neither list is classified routine with an
\* empty reasons list, and the reasons are empty only for the routine level.
C9_NoMatchIsRoutine ==
    Classified =>
        /\ (/\ MatchedRules(URGENT_TRIAGE_PATTERNS, symptomsIn) = {}
            /\ MatchedRules(WATCH_TRIAGE_PATTERNS, symptomsIn) = {})
               => (triageOut.level = "routine" /\ triageOut.reasons = <<>>)
        /\ triageOut.reasons = <<>> => triageOut.level = "routine"

C9_Witness ==
    /\ Classified
    /\ symptomsIn = "He has a cough now!"
    /\ triageOut.level = "routine"
    /\ triageOut.reasons = <<>>

\* C10: the reasons are exactly the reasons of all matched rules of the
\* winning tier, in rule-table order: an emergency result lists every matched
\* urgent reason and no watch reason, a caution result every matched watch
\* reason and no urgent reason.
C10_ReasonsOfWinningTier ==
    Classified =>
        /\ triageOut.level = "emergency" =>
               /\ ListsMatchedOf(triageOut.reasons, URGENT_TRIAGE_PATTERNS, symptomsIn)
               /\ \A j \in 1..Len(triageOut.reasons) :
                      triageOut.reasons[j] \notin ReasonsOf(WATCH_TRIAGE_PATTERNS)
        /\ triageOut.level = "caution" =>
               /\ ListsMatchedOf(triageOut.reasons, WATCH_TRIAGE_PATTERNS, symptomsIn)
               /\ \A j \in 1..Len(triageOut.reasons) :
                      triageOut.reasons[j] \notin ReasonsOf(URGENT_TRIAGE_PATTERNS)

\* two urgent rules matched, in the text in the opposite order of the table,
\* together with a watch rule
C10_Witness ==
    /\ Classified
    /\ symptomsIn = "SUICIDAL with vomiting and blue lips"
    /\ triageOut.level = "emergency"
    /\ triageOut.reasons = <<"Possible low oxygen signs", "Mental health emergency signs">>

(***************************************************************************)
(* The age refinement called on its own: an age is drawn and the schema    *)
(* checks a body carrying it                                               *)
(***************************************************************************)

MaxAgeSample == 20

\* numeric string literals with the number JavaScript reads them as: whole
\* says Number.isInteger of it, value is the number when it is whole
AgeLiterals ==
    {[text |-> "0", whole |-> TRUE, value |-> 0],
     [text |-> "1", whole |-> TRUE, value |-> 1],
     [text |-> "7", whole |-> TRUE, value |-> 7],
     [text |-> "18", whole |-> TRUE, value |-> 18],
     [text |-> "19", whole |-> TRUE, value |-> 19],
     [text |-> "-3", whole |-> TRUE, value |-> -3],
     [text |-> "-0", whole |-> TRUE, value |-> 0],
     [text |-> "+5", whole |-> TRUE, value |-> 5],
     [text |-> "018", whole |-> TRUE, value |-> 18],
     [text |-> "8.0", whole |-> TRUE, value |-> 8],
     [text |-> "5.", whole |-> TRUE, value |-> 5],
     [text |-> "0.0", whole |-> TRUE, value |-> 0],
     [text |-> "5.5", whole |-> FALSE, value |-> 0],
     [text |-> ".5", whole |-> FALSE, value |-> 0],
     [text |-> "17.99", whole |-> FALSE, value |-> 0],
     [text |-> "1e1", whole |-> TRUE, value |-> 10],
     [text |-> "1.8E1", whole |-> TRUE, value |-> 18],
     [text |-> "190e-1", whole |-> TRUE, value |-> 19],
     [text |-> "15e-1", whole |-> FALSE, value |-> 0],
     [text |-> "2e+1", whole |-> TRUE, value |-> 20],
     [text |-> "0x12", whole |-> TRUE, value |-> 18],
     [text |-> "0X13", whole |-> TRUE, value |-> 19],
     [text |-> "0b101", whole |-> TRUE, value |-> 5],
     [text |-> "0o22", whole |-> TRUE, value |-> 18],
     [text |-> "Infinity", whole |-> FALSE, value |-> 0],
     [text |-> "-0x5", whole |-> FALSE, value |-> 0],
     [text |-> "abc", whole |-> FALSE, value |-> 0],
     [text |-> "1 2", whole |-> FALSE, value |-> 0],
     [text |-> "12px", whole |-> FALSE, value |-> 0],
     [text |-> "1,5", whole |-> FALSE, value |-> 0],
     [text |-> "1e", whole |-> FALSE, value |-> 0],
     [text |-> "0x", whole |-> FALSE, value |-> 0],
     [text |-> ".", whole |-> FALSE, value |-> 0]}

AgePads == {"", " ", "\t "}
BlankAges == {"", " ", "\t \n"}

\* ages sent as strings
StringAges ==
    {[t |-> "string", s |-> pre \o lit.text \o post] :
        pre \in AgePads, lit \in AgeLiterals, post \in AgePads}
    \cup {[t |-> "string", s |-> blank] : blank \in BlankAges}

\* ages sent as numbers
NumberAges ==
    {[t |-> "number", n |-> n] : n \in (0 - 2)..MaxAgeSample}
    \cup {[t |-> "number", n |-> n, tenths |-> 5, negative |-> FALSE] : n \in {0, 5, 18}}
    \cup {[t |-> "number", n |-> 0, tenths |-> tenths, negative |-> TRUE] : tenths \in {0, 5}}

AbsentAge == [given |-> FALSE]
AgeInputs == {AbsentAge} \cup {[given |-> TRUE, age |-> age] : age \in StringAges \cup NumberAges}

\* the body of a request that is otherwise valid
AgeBody(input) ==
    IF input.given THEN [symptoms |-> "headache", age |-> input.age]
    ELSE [symptoms |-> "headache"]

AgeInit ==
    /\ ageIn \in AgeInputs
    /\ ageOut = NotUsed
    /\ symptomsIn = "" /\ languageIn = "" /\ triageOut = NoTriage
    /\ overrides = <<>> /\ fetchIsFunction = TRUE
    /\ req = [r \in Reqs |-> IdleReq]
    /\ LogIdle /\ UiIdle /\ LegacyIdle

\* the schema parses the body: the issues of the age refinement and the issues
\* of the whole parse
CheckAge ==
    /\ ageOut = NotUsed
    /\ ageOut' = [issues |-> RefineAge(AgeBody(ageIn)),
                  request |-> SchemaIssues(AgeBody(ageIn), config.maxFileBytes)]
    /\ UNCHANGED <<ageIn, triageVars, overrides, fetchIsFunction, req, triageLog, ui, legacy>>

AgeNext == CheckAge

AgeSpec == AgeInit /\ [][AgeNext]_vars

(***************************************************************************)
(* Properties of the age refinement                                        *)
(***************************************************************************)

AgeChecked == ageOut # NotUsed

AgePasses == ageOut.issues = <<>>

AgeRejection == <<"Age must be a whole number from 1 to 18.">>

\* the literals an age string can be read as once its padding is trimmed
ReadAs(s) ==
    {lit \in AgeLiterals : \E pre \in AgePads, post \in AgePads : s = pre \o lit.text \o post}

\* C21: a request passes the age check exactly when age is absent, or empty
\* after trimming, or parses to an integer from 1 to 18, whether it is sent as
\* a string or as a number; an age that parses to 0, to 19 or more, to a
\* negative number or to no integer is a validation failure of the request.
C21_AgePassesIffInRange ==
    AgeChecked =>
        /\ ~ageIn.given => AgePasses
        /\ (ageIn.given /\ ageIn.age.t = "string") =>
               /\ ageIn.age.s \in BlankAges => AgePasses
               /\ \A lit \in ReadAs(ageIn.age.s) :
                      AgePasses <=> (lit.whole /\ lit.value >= MinAge /\ lit.value <= MaxAge)
        /\ (ageIn.given /\ ageIn.age.t = "number") =>
               (AgePasses <=> (/\ Field(ageIn.age, "tenths", 0) = 0
                               /\ ageIn.age.n >= MinAge
                               /\ ageIn.age.n <= MaxAge))
        /\ AgePasses => ageOut.request = <<>>
        /\ ~AgePasses => (ageOut.issues = AgeRejection /\ ageOut.request = AgeRejection)

\* a hexadecimal 18 with padding passes, and a number with a fraction is rejected
C21_Witness ==
    /\ AgeChecked
    /\ \/ (ageIn.given /\ ageIn.age = [t |-> "string", s |-> " 0x12\t "] /\ AgePasses)
       \/ (/\ ageIn.given
           /\ ageIn.age = [t |-> "number", n |-> 18, tenths |-> 5, negative |-> FALSE]
           /\ ~AgePasses)

(***************************************************************************)
(* Two requests handled at once by one server: the event loop runs the     *)
(* handler of either request from one await to the next, in any order      *)
(***************************************************************************)

ConcurrentBodies ==
    {[symptoms |-> "mild headache"],
     [symptoms |-> "earache", name |-> "Leo", file |-> PhotoFile],
     [symptoms |-> " hi "]}

ConcurrentInit ==
    /\ overrides = <<"anthropicApiKey", "groqApiKey">>
    /\ fetchIsFunction = TRUE
    /\ req = [r \in Reqs |-> IdleReq]
    /\ symptomsIn = "" /\ languageIn = "" /\ triageOut = NoTriage
    /\ AgeIdle /\ LogIdle /\ UiIdle /\ LegacyIdle

\* a diagnose request arrives while the other may be in flight
ReceiveConcurrently(r) ==
    /\ req[r].pc = "idle"
    /\ \E body \in ConcurrentBodies :
           req' = [req EXCEPT ![r] = HandleDiagnose(config, [IdleReq EXCEPT !.body = body], body)]
    /\ UNCHANGED <<overrides, fetchIsFunction, triageVars, ageVars, triageLog, ui, legacy>>

ConcurrentNext ==
    \E r \in Reqs :
        \/ ReceiveConcurrently(r)
        \/ FetchRejects(r)
        \/ FetchResolves(r)
        \/ JsonSettles(r)

ConcurrentSpec == ConcurrentInit /\ [][ConcurrentNext]_vars

\* The request handled alone: the state the handler reaches from the body and
\* the answers its own calls got, in their order
RECURSIVE HandledAlone(_, _)
HandledAlone(body, replies) ==
    IF replies = <<>>
    THEN HandleDiagnose(config, [IdleReq EXCEPT !.body = body], body)
    ELSE LET reply == replies[Len(replies)]
             before == HandledAlone(body, SubSeq(replies, 1, Len(replies) - 1))
             st == [before EXCEPT !.replies = Append(@, reply)]
         IN  IF reply.kind = "reject"
             THEN AttemptFailed(config, st, reply.message)
             ELSE LET answered == [st EXCEPT !.responseOk = reply.ok]
                      result == ProviderResult(PROVIDER_PRIORITY[st.attempt], reply.ok,
                                               parseJsonSafe(reply.body))
                  IN  IF result.ok
                      THEN AttemptSucceeded(config, answered, result.text)
                      ELSE AttemptFailed(config, answered, result.message)

\* the entry that the failure of the k-th call of the request leaves
OwnFailureEntry(st, k) ==
    LET reply == st.replies[k]
        name == st.calls[k].provider
        message == IF reply.kind = "reject" THEN reply.message
                   ELSE ProviderResult(name, reply.ok, parseJsonSafe(reply.body)).message
    IN  name \o ": " \o (IF message # "" THEN message ELSE "failed")

\* the failures of the request's own calls, in the order of the calls
OwnFailures(st) ==
    LET failed == {k \in 1..Len(st.replies) : FailedIn(st, k)}
    IN  [i \in 1..Cardinality(failed) |->
            OwnFailureEntry(st, CHOOSE k \in failed : Cardinality({j \in failed : j <= k}) = i)]

\* C24: requests handled at the same time are independent under every
\* interleaving of their steps: each request is at every moment in the state it
\* would be in handled alone with its own body and its own answers, its
\* failure list holds the failures of its own calls and no other entry, and
\* so does the aggregate error of its 502.
C24_ConcurrentRequestsAreIndependent ==
    \A r \in Reqs :
        LET st == req[r]
        IN  IF st.pc = "idle" THEN st = IdleReq
            ELSE /\ st.errors = OwnFailures(st)
                 /\ (st.pc = "responded" /\ st.res.status = 502 /\ st.calls # <<>>)
                        => AggregateEntries(st.res.error) = OwnFailures(st)
                 /\ IF st.pc = "awaitJson"
                    THEN st = [HandledAlone(st.body, st.replies)
                                   EXCEPT !.pc = "awaitJson", !.responseOk = st.responseOk]
                    ELSE st = HandledAlone(st.body, st.replies)

\* both requests in flight at once end with different outcomes: one falls
\* back and succeeds, the other fails on both providers in other ways
C24_Witness ==
    /\ req["r1"].pc = "responded" /\ req["r2"].pc = "responded"
    /\ req["r1"].res.status = 200
    /\ req["r1"].errors = <<"groq: fetch failed">>
    /\ req["r2"].res.status = 502
    /\ req["r2"].res.error
           = "All providers failed. groq: Groq returned an empty response. | anthropic: anthropic unavailable"

(***************************************************************************)
(* The classifier called repeatedly in one process: every call runs on the *)
(* regex objects the calls before it left                                  *)
(***************************************************************************)

MaxCalls == 3

RepeatTexts == {"Chest pain, rash", "rash + chest pain", "a cough"}

\* two languages of the copy table, a code it does not have, and a name that
\* every object inherits a property for
RepeatLanguages == {"en", "fr", "de", "constructor"}

RepeatInit ==
    /\ triageLog = [calls |-> <<>>, regexState |-> FreshRegexState]
    /\ symptomsIn = "" /\ languageIn = "" /\ triageOut = NoTriage
    /\ overrides = <<>> /\ fetchIsFunction = TRUE
    /\ req = [r \in Reqs |-> IdleReq]
    /\ AgeIdle /\ UiIdle /\ LegacyIdle

CallDetectTriageAgain ==
    /\ Len(triageLog.calls) < MaxCalls
    /\ \E symptoms \in RepeatTexts, language \in RepeatLanguages :
           LET call == detectTriageCall(symptoms, language, triageLog.regexState)
           IN  triageLog' = [calls |-> Append(triageLog.calls,
                                              [symptoms |-> symptoms, language |-> language,
                                               result |-> call.result]),
                             regexState |-> call.regexState]
    /\ UNCHANGED <<triageVars, overrides, fetchIsFunction, req, ageVars, ui, legacy>>

RepeatNext == CallDetectTriageAgain

RepeatSpec == RepeatInit /\ [][RepeatNext]_vars

(***************************************************************************)
(* Properties of repeated classification                                   *)
(***************************************************************************)

TitleOf(copy, level) ==
    IF level = "emergency" THEN copy.emergencyTitle
    ELSE IF level = "caution" THEN copy.cautionTitle
    ELSE copy.routineTitle

MessageOf(copy, level) ==
    IF level = "emergency" THEN copy.emergencyMessage
    ELSE IF level = "caution" THEN copy.cautionMessage
    ELSE copy.routineMessage

\* two calls with the same text return the same level and the same reasons
SameTextSameVerdict ==
    \A i, j \in 1..Len(triageLog.calls) :
        triageLog.calls[i].symptoms = triageLog.calls[j].symptoms =>
            /\ triageLog.calls[i].result.level = triageLog.calls[j].result.level
            /\ triageLog.calls[i].result.reasons = triageLog.calls[j].result.reasons

\* the call's title and message are those of the copy for its level
StringsFrom(call, copy) ==
    /\ call.result.title = TitleOf(copy, call.result.level)
    /\ call.result.message = MessageOf(copy, call.result.level)

FairOverrides ==
    {<<>>, <<"anthropicApiKey">>, <<"anthropicApiKey", "geminiApiKey", "groqApiKey">>}

FairInit ==
    /\ overrides \in FairOverrides
    /\ fetchIsFunction \in BOOLEAN
    /\ req = [r \in Reqs |-> IdleReq]
    /\ symptomsIn = "" /\ languageIn = "" /\ triageOut = NoTriage
    /\ AgeIdle /\ LogIdle /\ UiIdle /\ LegacyIdle

FairSpec ==
    /\ FairInit
    /\ [][Next]_vars
    /\ WF_vars(FetchRejects("r1") \/ FetchResolves("r1"))
    /\ WF_vars(JsonSettles("r1"))

Awaiting(r) == req[r].pc \in {"awaitFetch", "awaitJson"}

\* one response and no more: a request that has responded has written one
\* response, any other request none, and no request has made more calls than
\* the priority list has providers
AtMostOneResponse ==
    \A r \in Reqs :
        /\ req[r].sent = (IF req[r].pc = "responded" THEN 1 ELSE 0)
        /\ req[r].pc = "responded" <=> req[r].res # NoResponse
        /\ req[r].pc \in {"idle", "awaitFetch", "awaitJson", "responded"}
        /\ Len(req[r].calls) <= Len(PROVIDER_PRIORITY)
        /\ Len(req[r].replies) <= Len(req[r].calls)

\* C28: provided every issued provider call completes, with a response or a
\* network failure, every diagnose request eventually produces exactly one
\* HTTP response: the loop ends after at most one pass over the priority
\* list, and the handler never responds twice nor leaves a request unanswered.
C28_EveryRequestIsAnsweredOnce ==
    /\ []AtMostOneResponse
    /\ \A r \in Reqs : Awaiting(r) ~> (req[r].pc = "responded" /\ req[r].sent = 1)
    /\ [][\A r \in Reqs : req[r].pc = "responded" => req'[r] = req[r]]_vars

\* three providers were called in one pass, all failed, and the request was
\* answered once
C28_Witness ==
    /\ req["r1"].pc = "responded"
    /\ req["r1"].sent = 1
    /\ Len(req["r1"].calls) = 3
    /\ Len(req["r1"].replies) = 3
    /\ req["r1"].res.status = 502

(***************************************************************************)
(* The upload of the page (App.jsx): the state of the component, the file  *)
(* reads in flight, and the attachment of the last diagnose payload        *)
(***************************************************************************)

MAX_UPLOAD_MB == 4

SUPPORTED_UPLOAD_MIME_TYPES == IMAGE_MIME_TYPES \cup {"application/pdf", "text/plain"}

\* the files the user can pick (the browser gives the type in lower case):
\* content is the base64 of the file's bytes
UiFiles ==
    {[name |-> "blood.png", type |-> "image/png", size |-> 1024, content |-> "Ymxvb2Q="],
     [name |-> "report.pdf", type |-> "application/pdf", size |-> 2048, content |-> "cmVwb3J0"],
     [name |-> "notes.TXT", type |-> "text/plain", size |-> 16, content |-> "bm90ZXM="],
     [name |-> "setup.exe", type |-> "application/x-msdownload", size |-> 512,
      content |-> "c2V0dXA="],
     [name |-> "scan.webp", type |-> "image/webp", size |-> 5 * BytesPerMB,
      content |-> "c2Nhbg=="]}

NoFile == [none |-> TRUE]
NoPayload == [none |-> TRUE]

\* useState(null), useState(null), useState(false): nothing uploaded, no read
\* in flight, no payload sent
InitialUi ==
    [uploadedFile |-> NoFile, fileBase64 |-> "", isImage |-> FALSE, error |-> "",
     reads |-> {}, payload |-> NoPayload]

\* reader.result of readAsDataURL
DataUrl(file) == "data:" \o file.type \o ";base64," \o file.content

\* clearUpload
clearUpload(state) ==
    [state EXCEPT !.uploadedFile = NoFile, !.fileBase64 = "", !.isImage = FALSE]

\* handleFileUpload up to its await: the checks, the setters, and the read begun
handleFileUpload(state, file) ==
    LET mimeType == ToLowerCase(file.type)
    IN  IF mimeType \notin SUPPORTED_UPLOAD_MIME_TYPES
        THEN [state EXCEPT !.error = "Unsupported file type. Please upload JPEG, PNG, WEBP, PDF, or TXT."]
        ELSE IF file.size > MAX_UPLOAD_MB * BytesPerMB
        THEN [state EXCEPT !.error = "File is too large. Please upload a file under "
                                     \o NumberToString(MAX_UPLOAD_MB) \o "MB."]
        ELSE [state EXCEPT !.error = "",
                           !.uploadedFile = file,
                           !.isImage = mimeType \in IMAGE_MIME_TYPES,
                           !.reads = @ \cup {file}]

\* handleFileUpload after its await: dataUrl.split(",")[1] is kept
ReadResolved(state, file) ==
    LET parts == SplitOn(DataUrl(file), ",")
    IN  [state EXCEPT !.fileBase64 = IF Len(parts) >= 2 THEN parts[2] ELSE "",
                      !.reads = @ \ {file}]

\* handleFileUpload's catch
ReadRejected(state, file) ==
    [clearUpload(state) EXCEPT !.error = "Could not read the uploaded file. Please try a different file.",
                               !.reads = @ \ {file}]

\* runDiagnosis: payload.file, when fileBase64 && uploadedFile
runDiagnosis(state) ==
    [state EXCEPT !.payload =
        IF state.fileBase64 # "" /\ state.uploadedFile # NoFile
        THEN [base64 |-> state.fileBase64,
              mimeType |-> IF state.uploadedFile.type # "" THEN state.uploadedFile.type
                           ELSE "application/octet-stream",
              fileName |-> state.uploadedFile.name,
              isImage |-> state.isImage]
        ELSE NoPayload]

FrontendInit ==
    /\ ui = InitialUi
    /\ symptomsIn = "" /\ languageIn = "" /\ triageOut = NoTriage
    /\ overrides = <<>> /\ fetchIsFunction = TRUE
    /\ req = [r \in Reqs |-> IdleReq]
    /\ AgeIdle /\ LogIdle /\ LegacyIdle

NotUi == <<triageVars, overrides, fetchIsFunction, req, ageVars, triageLog, legacy>>

\* the user picks a file
SelectFile == (\E file \in UiFiles : ui' = handleFileUpload(ui, file)) /\ UNCHANGED NotUi

\* the user presses Remove File
RemoveFile == ui.uploadedFile # NoFile /\ ui' = clearUpload(ui) /\ UNCHANGED NotUi

\* a read in flight completes
ReadCompletes == (\E file \in ui.reads : ui' = ReadResolved(ui, file)) /\ UNCHANGED NotUi

\* a read in flight fails
ReadFails == (\E file \in ui.reads : ui' = ReadRejected(ui, file)) /\ UNCHANGED NotUi

\* the user presses the diagnose button
PressDiagnose == ui' = runDiagnosis(ui) /\ UNCHANGED NotUi

FrontendNext == SelectFile \/ RemoveFile \/ ReadCompletes \/ ReadFails \/ PressDiagnose

FrontendSpec == FrontendInit /\ [][FrontendNext]_vars

\* the attachment describes the file: its content, its type, its name, and
\* whether its type is an image type
Describes(attachment, file) ==
    /\ attachment.base64 = file.content
    /\ attachment.mimeType = file.type
    /\ attachment.fileName = file.name
    /\ attachment.isImage = (file.type \in IMAGE_MIME_TYPES)

\* C29: whenever a diagnose payload includes a file, its base64, mimeType,
\* fileName and isImage all describe one and the same selected file, under
\* every interleaving of selections, removals and read completions.
C29_PayloadDescribesOneFile ==
    ui.payload # NoPayload => \E file \in UiFiles : Describes(ui.payload, file)

\* the content of the picture goes out under the name and type of the report
C29_Witness ==
    /\ ui.payload # NoPayload
    /\ ui.payload = [base64 |-> "Ymxvb2Q=", mimeType |-> "application/pdf",
                     fileName |-> "report.pdf", isImage |-> FALSE]


(***************************************************************************)
(* The single-provider backend (server/index.js) next to the backend with  *)
(* fallback. Both servers are given the Anthropic credential and nothing   *)
(* else; the single-provider handler is followed on the payload the other  *)
(* received and on the answers the network gave to the other's call.       *)
(***************************************************************************)

DEFAULT_MODEL == "claude-sonnet-4-20250514"

\* createServerConfig of the single-provider backend
createSingleServerConfig(ov, fetchOk) ==
    [model |-> DEFAULT_MODEL,
     apiKey |-> OverrideValue(ov, "apiKey"),
     maxFileBytes |-> MaxFileBytes,
     fetchImplIsFunction |-> fetchOk]

singleConfig == createSingleServerConfig(overrides, fetchIsFunction)

\* the content of the user message: the image block, when there is one, and
\* the text block
buildUserContent(symptoms, childName, childAge, language, readingLevel, file) ==
    [text |-> "Hi Dr. Buddy. I am " \o childName \o ", " \o childAge \o ". My symptoms: "
              \o symptoms \o ". Preferred language: " \o language \o ". Reading level: "
              \o readingLevel \o "."
              \o (IF HasUpload(file) /\ file.isImage
                  THEN " Please read my lab image and explain it simply for a child."
                  ELSE IF HasUpload(file) /\ ~file.isImage
                  THEN " I uploaded a non-image file. Please provide advice from symptoms only."
                  ELSE ""),
     image |-> IF HasUpload(file) /\ file.isImage
               THEN [mediaType |-> file.mimeType, data |-> file.base64]
               ELSE NoImage]

SingleIdle ==
    [pc |-> "idle", body |-> NoBody, payload |-> NoBody, triage |-> NoTriage,
     childName |-> "", childAge |-> "", responseOk |-> FALSE,
     calls |-> <<>>, res |-> NoResponse, sent |-> 0]

\* The single-provider handler of POST /api/diagnose up to its first await
SingleHandleDiagnose(cfg, st, body) ==
    IF cfg.apiKey = ""
    THEN Respond(st, [status |-> 500,
                      error |-> "Server is missing ANTHROPIC_API_KEY. Add it to .env before using diagnose."])
    ELSE IF ~cfg.fetchImplIsFunction
    THEN Respond(st, [status |-> 500, error |-> "Server fetch client is not configured."])
    ELSE IF SchemaIssues(body, cfg.maxFileBytes) # <<>>
    THEN ValidationFailure(st, SchemaIssues(body, cfg.maxFileBytes))
    ELSE LET payload == ParsedData(body)
             childName == IF payload.name # "" THEN payload.name ELSE "little friend"
             ageText == AgeText(payload.age)
             childAge == IF ageText # "" THEN ageText \o " years old" ELSE "a young child"
             triage == detectTriage(payload.symptoms, payload.language)
             content == buildUserContent(payload.symptoms, childName, childAge,
                                         payload.language, payload.readingLevel, payload.file)
         IN  [st EXCEPT !.pc = "awaitFetch", !.payload = payload, !.triage = triage,
                        !.childName = childName, !.childAge = childAge,
                        !.calls = <<[provider |-> "anthropic",
                                     url |-> "https://api.anthropic.com/v1/messages",
                                     auth |-> cfg.apiKey,
                                     model |-> cfg.model,
                                     system |-> buildSystemPrompt(childName, childAge,
                                                   payload.language, payload.readingLevel,
                                                   triage.level),
                                     text |-> content.text,
                                     image |-> content.image]>>]

\* catch { res.status(502)... }: whatever was thrown inside the try
SingleCaught(st) ==
    Respond(st, [status |-> 502, error |-> "Could not reach AI provider. Please try again."])

\* the fetch resolved: the handler awaits anthropicResponse.json()
SingleFetchResolved(st, ok) == [st EXCEPT !.pc = "awaitJson", !.responseOk = ok]

\* the handler from the parsed body of the response on
SingleJsonSettledAcceptsEmpty(st, body) ==
    LET data == parseJsonSafe(body)
    IN  IF ~st.responseOk
        THEN Respond(st, [status |-> 502,
                          error |-> IF ErrorMessageOf(data) # "" THEN ErrorMessageOf(data)
                                    ELSE "Anthropic request failed."])
        ELSE IF extractAnthropicTextThrows(data) THEN SingleCaught(st)
        ELSE Respond(st, [status |-> 200,
                          result |-> extractAnthropicText(data),
                          triage |-> st.triage,
                          handoff |-> [childName |-> st.childName,
                                       childAge |-> st.childAge,
                                       symptoms |-> st.payload.symptoms,
                                       language |-> st.payload.language,
                                       readingLevel |-> st.payload.readingLevel]])
SingleJsonSettled(st, body) ==
    LET data == parseJsonSafe(body)
    IN  IF ~st.responseOk
        THEN Respond(st, [status |-> 502,
                          error |-> IF ErrorMessageOf(data) # "" THEN ErrorMessageOf(data)
                                    ELSE "Anthropic request failed."])
        ELSE IF extractAnthropicTextThrows(data) THEN SingleCaught(st)
        ELSE IF extractAnthropicText(data) = ""
        THEN Respond(st, [status |-> 502,
                          error |-> "No diagnosis response was returned by the model."])
        ELSE Respond(st, [status |-> 200,
                          result |-> extractAnthropicText(data),
                          triage |-> st.triage,
                          handoff |-> [childName |-> st.childName,
                                       childAge |-> st.childAge,
                                       symptoms |-> st.payload.symptoms,
                                       language |-> st.payload.language,
                                       readingLevel |-> st.payload.readingLevel]])

\* both servers hold the Anthropic credential (given as apiKey, which the
\* backend with fallback takes as its anthropicApiKey) and no other
EquivInit ==
    /\ overrides = <<"apiKey">>
    /\ fetchIsFunction \in BOOLEAN
    /\ req = [r \in Reqs |-> IdleReq]
    /\ legacy = SingleIdle
    /\ symptomsIn = "" /\ languageIn = "" /\ triageOut = NoTriage
    /\ AgeIdle /\ LogIdle /\ UiIdle

NotLegacy == <<triageVars, overrides, fetchIsFunction, req, ageVars, triageLog, ui>>

\* the single-provider server receives the payload the other server received
SingleReceives ==
    /\ legacy.pc = "idle"
    /\ req["r1"].pc # "idle"
    /\ legacy' = SingleHandleDiagnose(singleConfig,
                                      [SingleIdle EXCEPT !.body = req["r1"].body],
                                      req["r1"].body)
    /\ UNCHANGED NotLegacy

\* its fetch settles as the other server's Anthropic call did
SingleFetchSettles ==
    /\ legacy.pc = "awaitFetch"
    /\ Len(req["r1"].replies) >= 1
    /\ legacy' = IF req["r1"].replies[1].kind = "reject"
                 THEN SingleCaught(legacy)
                 ELSE SingleFetchResolved(legacy, req["r1"].replies[1].ok)
    /\ UNCHANGED NotLegacy

\* the body of the response is read
SingleJsonSettles ==
    /\ legacy.pc = "awaitJson"
    /\ legacy' = SingleJsonSettled(legacy, req["r1"].replies[1].body)
    /\ UNCHANGED NotLegacy

EquivNext ==
    \/ ReceiveDiagnose("r1")
    \/ FetchRejects("r1")
    \/ FetchResolves("r1")
    \/ JsonSettles("r1")
    \/ SingleReceives
    \/ SingleFetchSettles
    \/ SingleJsonSettles

EquivSpec == EquivInit /\ [][EquivNext]_vars

\* the two responses are the same to the caller: the same status; on success
\* the same result, triage and handoff, the backend with fallback adding only
\* provider; on failure an error message each
SameOutcome(single, fallback) ==
    /\ single.status = fallback.status
    /\ single.status \in {200, 400, 500, 502}
    /\ IF single.status = 200
       THEN /\ single.result = fallback.result
            /\ single.triage = fallback.triage
            /\ single.handoff = fallback.handoff
            /\ DOMAIN single = {"status", "result", "triage", "handoff"}
            /\ DOMAIN fallback = DOMAIN single \cup {"provider"}
       ELSE /\ DOMAIN single = {"status", "error"}
            /\ DOMAIN fallback = {"status", "error"}

\* C30: the single-provider backend and the backend with fallback holding
\* only the Anthropic credential answer every payload and every outcome of
\* the Anthropic call with the same status and, on success, the same result,
\* triage and handoff; the single-provider backend calls Anthropic exactly
\* when the other does
C30_SingleProviderAgreesWithFallback ==
    /\ legacy.pc \in {"idle", "awaitFetch", "awaitJson", "responded"}
    /\ legacy.pc \in {"awaitFetch", "awaitJson"} =>
           /\ Len(req["r1"].calls) = 1
           /\ req["r1"].calls[1].provider = "anthropic"
           /\ req["r1"].calls[1].url = legacy.calls[1].url
    /\ legacy.pc = "responded" =>
           /\ req["r1"].pc = "responded"
           /\ legacy.sent = 1
           /\ Len(legacy.calls) = Len(req["r1"].calls)
           /\ SameOutcome(legacy.res, req["r1"].res)

\* both have answered 200 after Anthropic returned text, the fallback backend
\* naming the provider
C30_Witness ==
    /\ legacy.pc = "responded"
    /\ req["r1"].pc = "responded"
    /\ legacy.res.status = 200
    /\ req["r1"].res.status = 200
    /\ req["r1"].res.provider = "anthropic"
    /\ legacy.res.result = SuccessText("anthropic")
    /\ legacy.res.triage.level = "emergency"
====
